---- MODULE Spec2Model ----
(***************************************************************************)
(* Verification screen of the camera gate application: the frame processor *)
(* worklet and its capture trigger, the capture-and-verify pipeline, the   *)
(* embedding matcher, and the Bluetooth gate link hook; and, each on its   *)
(* own, the location reporter (useLocation), the user store (database.ts)  *)
(* and the registration poll of the splash screen.                         *)
(*                                                                         *)
(* React semantics kept by the model: a useState setter changes the hook   *)
(* state at once (st); the functions a component hands out (button         *)
(* handlers, captureAndVerify, sendCommand, disconnectFromESP32) read the   *)
(* values of the render that created them (rendered), and an async         *)
(* function keeps reading the values of the render it was called from for  *)
(* its whole run (a closure).  A pending render runs before the JS tasks   *)
(* that start after the state change (Settled).  The frame processor is    *)
(* memoised on [model, isScanning, lastCaptureTime]: it reads the values   *)
(* of the last render in which one of these changed (worklet).  runOnJS    *)
(* queues a call onto the JS thread (jsQueue).  One action is one JS task: *)
(* the code between two awaits.  The Bluetooth test mode of the screen is  *)
(* left off throughout.                                                    *)
(***************************************************************************)
EXTENDS Naturals, Integers, Sequences, FiniteSets, TLC

(* ------------------------------ bounds -------------------------------- *)
MaxRuns == 2
MaxTicks == 1
TickMs == 3000
MaxWire == 2
MaxUsers == 3
MaxFaces == 1
MaxTriggerFaces == 2
MaxPolls == 3
MaxSaves == 3
MaxBatch == 2
MaxChecks == 3
FrameWidth == 16
FrameHeight == 12

(* ------------------------- program constants --------------------------- *)
EmbeddingLength == 128
CooldownMs == 3000
ThresholdHundredths == 60
PASSWORD == "MySecurePass123"
ESP32_DEVICE_NAME == "ESP32_Gate"

(* Commands are token sequences; a line on the transport is the command    *)
(* followed by the newline the code appends.                               *)
AuthenticateCommand == <<"AUTHENTICATE", PASSWORD>>
RetryAuthenticateCommand == <<"AUTHENTICATE", "MySecurePass123">>
FaceDetectedCommand == <<"FACE_DETECTED">>
Line(command) == command \o <<"\n">>
startsWith(command, verb) == Len(command) >= 1 /\ command[1] = verb

(* ----------------------------- embeddings ------------------------------ *)
(* An embedding is kept as its length and its leading components, in       *)
(* tenths; the components after the leading ones are 0.                    *)
At(e, i) == IF i <= Len(e.head) THEN e.head[i] ELSE 0
Emb(len, head) == [len |-> len, head |-> head]

(* The reduce of calculateEuclideanDistance over the indices lo..hi: the   *)
(* sum of the squared component differences.  It is summed by halves       *)
(* (the same exact integer as the left-to-right sum), and a range past the *)
(* leading components of both vectors, where every difference is 0 - 0,    *)
(* is 0.                                                                   *)
RECURSIVE SumSq(_, _, _, _)
SumSq(e1, e2, lo, hi) ==
    IF lo > hi THEN 0
    ELSE IF lo > Len(e1.head) /\ lo > Len(e2.head) THEN 0
    ELSE IF lo = hi THEN (At(e1, lo) - At(e2, lo)) * (At(e1, lo) - At(e2, lo))
    ELSE LET mid == (lo + hi) \div 2
         IN SumSq(e1, e2, lo, mid) + SumSq(e1, e2, mid + 1, hi)

(* The distance as it would be summed without squaring the differences.    *)
RECURSIVE SumDiff(_, _, _, _)
SumDiff(e1, e2, lo, hi) ==
    IF lo > hi THEN 0
    ELSE IF lo > Len(e1.head) /\ lo > Len(e2.head) THEN 0
    ELSE IF lo = hi THEN At(e1, lo) - At(e2, lo)
    ELSE LET mid == (lo + hi) \div 2
         IN SumDiff(e1, e2, lo, mid) + SumDiff(e1, e2, mid + 1, hi)
calculateSignedDistance(emb1, emb2) ==
    IF emb1.len # emb2.len THEN [threw |-> TRUE, sq |-> 0]
    ELSE [threw |-> FALSE, sq |-> SumDiff(emb1, emb2, 1, emb1.len)]

(* calculateEuclideanDistance: throws on a length mismatch, else the sqrt  *)
(* of the sum of squares.  Components are in tenths, so the sum is exact    *)
(* in hundredths of a squared unit; the distance is kept as that sum (sqrt  *)
(* is strictly increasing on these exact values), and compared through its *)
(* square.                                                                 *)
calculateEuclideanDistance(emb1, emb2) ==
    IF emb1.len # emb2.len THEN [threw |-> TRUE, sq |-> 0]
    ELSE [threw |-> FALSE, sq |-> SumSq(emb1, emb2, 1, emb1.len)]

(* d1 < d2 on distances kept as squares *)
DistLess(sq1, sq2) == sq1 < sq2
(* distance < 0.6, on the squared sum in hundredths: sq/100 < 0.36          *)
BelowThreshold(sq) == sq * 100 < ThresholdHundredths * ThresholdHundredths

(* ------------------------------ matcher -------------------------------- *)
Infinity == [inf |-> TRUE, sq |-> 0]
Finite(sq) == [inf |-> FALSE, sq |-> sq]
NoUser == [userId |-> "null", embedding |-> Emb(0, <<>>)]

(* The comparison that would also replace the closest match on an equal   *)
(* distance: distance <= closestMatch.distance.                            *)
CloserOrEqual(sq, best) == best.inf \/ ~DistLess(best.sq, sq)

(* distance < closestMatch.distance *)
CloserThan(sq, best) == best.inf \/ DistLess(sq, best.sq)

(* The linear scan of verifyFace over cachedUsers[i..], from closestMatch  *)
(* = best; threw when calculateEuclideanDistance throws.                   *)
RECURSIVE Scan(_, _, _, _)
Scan(newEmbedding, users, i, best) ==
    IF i > Len(users) THEN best
    ELSE LET d == calculateEuclideanDistance(newEmbedding, users[i].embedding)
         IN IF d.threw THEN [best EXCEPT !.threw = TRUE]
            ELSE IF CloserThan(d.sq, best.distance)
                 THEN Scan(newEmbedding, users, i + 1,
                           [threw |-> FALSE, distance |-> Finite(d.sq), user |-> users[i]])
                 ELSE Scan(newEmbedding, users, i + 1, best)

closestMatch(newEmbedding, users) ==
    Scan(newEmbedding, users, 1, [threw |-> FALSE, distance |-> Infinity, user |-> NoUser])

(* verifyFace as it would decide without its check for an empty            *)
(* cachedUsers: the scan finds nobody.                                     *)
verifyFaceDecisionUnguarded(newEmbedding, users) ==
    IF newEmbedding.len # EmbeddingLength
    THEN [kind |-> "invalid_length", userId |-> "null", sq |-> 0]
    ELSE LET cm == closestMatch(newEmbedding, users)
         IN IF cm.threw
            THEN [kind |-> "error", userId |-> "null", sq |-> 0]
            ELSE IF ~cm.distance.inf /\ BelowThreshold(cm.distance.sq) /\ cm.user # NoUser
            THEN [kind |-> "match", userId |-> cm.user.userId, sq |-> cm.distance.sq]
            ELSE [kind |-> "no_match", userId |-> cm.user.userId, sq |-> cm.distance.sq]

(* verifyFace as it would decide without its length check on newEmbedding. *)
verifyFaceDecisionUnchecked(newEmbedding, users) ==
    IF Len(users) = 0
    THEN [kind |-> "no_users", userId |-> "null", sq |-> 0]
    ELSE LET cm == closestMatch(newEmbedding, users)
         IN IF cm.threw
            THEN [kind |-> "error", userId |-> "null", sq |-> 0]
            ELSE IF ~cm.distance.inf /\ BelowThreshold(cm.distance.sq) /\ cm.user # NoUser
            THEN [kind |-> "match", userId |-> cm.user.userId, sq |-> cm.distance.sq]
            ELSE [kind |-> "no_match", userId |-> cm.user.userId, sq |-> cm.distance.sq]

(* verifyFace up to its await of logVerification: what it returns, or that  *)
(* it goes on to log the match ("match").                                  *)
verifyFaceDecision(newEmbedding, users) ==
    IF newEmbedding.len # EmbeddingLength
    THEN [kind |-> "invalid_length", userId |-> "null", sq |-> 0]
    ELSE IF Len(users) = 0
    THEN [kind |-> "no_users", userId |-> "null", sq |-> 0]
    ELSE LET cm == closestMatch(newEmbedding, users)
         IN IF cm.threw
            THEN [kind |-> "error", userId |-> "null", sq |-> 0]
            ELSE IF ~cm.distance.inf /\ BelowThreshold(cm.distance.sq) /\ cm.user # NoUser
            THEN [kind |-> "match", userId |-> cm.user.userId, sq |-> cm.distance.sq]
            ELSE [kind |-> "no_match", userId |-> cm.user.userId, sq |-> cm.distance.sq]

(* Number.prototype.toFixed(2) of a distance kept as its squared sum sq in *)
(* hundredths: the distance is sqrt(sq)/10, so its nearest hundredth n is  *)
(* the n with (n - 1/2)^2 <= 100 * sq < (n + 1/2)^2, printed with two       *)
(* decimals.                                                               *)
nearestHundredth(sq) ==
    CHOOSE n \in 0..(10 * sq + 1) :
        /\ n > 0 => (2 * n - 1) * (2 * n - 1) <= 400 * sq
        /\ 400 * sq < (2 * n + 1) * (2 * n + 1)
toFixed2(sq) ==
    LET n == nearestHundredth(sq)
    IN <<ToString(n \div 100), ".", ToString((n \div 10) % 10), ToString(n % 10)>>

(* The VerificationResult verifyFace returns for decision d, once the      *)
(* logVerification it awaits for a match has resolved (logged) or rejected. *)
Unverified(message) ==
    [verified |-> FALSE, userId |-> "undefined", sq |-> 0, message |-> message]
verifyFaceResult(newEmbedding, d, logged) ==
    IF d.kind = "invalid_length"
    THEN Unverified(<<"Invalid embedding length: ", ToString(newEmbedding.len)>>)
    ELSE IF d.kind = "no_users" THEN Unverified(<<"No users registered">>)
    ELSE IF d.kind = "error" THEN Unverified(<<"Error during verification">>)
    ELSE IF d.kind = "match"
    THEN IF logged
         THEN [verified |-> TRUE, userId |-> d.userId, sq |-> d.sq, message |-> <<>>]
         ELSE Unverified(<<"Error during verification">>)
    ELSE Unverified(<<"No match found (closest: ", d.userId, " ">> \o toFixed2(d.sq) \o <<")">>)

(* ------------------------------- state --------------------------------- *)
VARIABLES
    st,         \* the useState values of VerifyScreen and useBluetoothESP32
    rendered,   \* their values in the last render (what new closures read)
    worklet,    \* what the memoised frame processor reads
    jsQueue,    \* calls queued by runOnJS, oldest first
    runs,       \* the calls of captureAndVerify that passed its guard
    now,        \* Date.now()
    linkUp,     \* the Bluetooth connection to the paired device is open
    wire,       \* the lines written on the current connection, oldest first
    connPc,     \* where the call of connectToESP32 stands
    discPc,     \* where the call of disconnectFromESP32 stands
    sink,       \* the userIds inserted into VerificationLogs
    out,        \* what the last JS task reported (alert, return value)
    matcher,    \* a call of verifyFace on its own: its inputs and what it decided
    reporter,   \* the useLocation hook, the device's position and the server
    store,      \* the Users table and the last call made on it
    splash      \* the splash screen's registration poll

screenVars == <<st, rendered, worklet, jsQueue, runs, now, linkUp, wire,
                connPc, discPc, sink, out>>
(* What the verification screen's own actions leave alone. *)
aside == <<reporter, store, splash>>
vars == <<st, rendered, worklet, jsQueue, runs, now, linkUp, wire,
          connPc, discPc, sink, out, matcher, reporter, store, splash>>

(* The user store read by getUsers. *)
StoredUsers ==
    << [userId |-> "alice", embedding |-> Emb(EmbeddingLength, <<>>)],
       [userId |-> "bob", embedding |-> Emb(EmbeddingLength, <<10>>)] >>

(* The embeddings the face model returns in a run: alice's own, one far    *)
(* from every user, one of a wrong length.                                 *)
ModelEmbeddings ==
    { Emb(EmbeddingLength, <<>>), Emb(EmbeddingLength, <<30>>), Emb(EmbeddingLength - 1, <<>>) }

(* What a function created in a render reads of that render. *)
Closure(r) ==
    [isScanning |-> r.isScanning, isConnected |-> r.isConnected,
     isAuthenticated |-> r.isAuthenticated, device |-> r.device,
     cachedUsers |-> r.cachedUsers]

(* The Camera is rendered (and camera.current set) only past the early     *)
(* returns of the component: Bluetooth permissions held, and not           *)
(* connected-but-unauthenticated.                                          *)
cameraMounted(r) == r.hasPermissions /\ ~(r.isConnected /\ ~r.isAuthenticated)

NoClosure == [isScanning |-> FALSE, isConnected |-> FALSE, isAuthenticated |-> FALSE,
              device |-> "null", cachedUsers |-> <<>>]

(* What a JS task or a frame reported: the call (op), the command or line it *)
(* was about, its outcome, whether a performance-metrics entry was added,   *)
(* and for a frame the model outputs it was run on and the detections it    *)
(* published (each a sequence of at most one).                              *)
NoOut == [op |-> "none", command |-> <<>>, report |-> "none", metric |-> FALSE,
          frame |-> <<>>, published |-> <<>>]

StartMs == CooldownMs

(* The state after the first render and its mount effects: connectToESP32 *)
(* has started; initialize has fetched the users (an empty store, or a     *)
(* failed fetch, leaves cachedUsers empty).                                *)
ScreenInit ==
    /\ \E users \in {<<>>, StoredUsers} :
          st = [isScanning |-> FALSE, lastCaptureTime |-> 0, isConnected |-> FALSE,
                isAuthenticated |-> FALSE, device |-> "null", hasPermissions |-> FALSE,
                cachedUsers |-> users]
    /\ rendered = st
    /\ worklet = [lastCaptureTime |-> 0, cav |-> Closure(st)]
    /\ jsQueue = <<>>
    /\ runs = [i \in 1..MaxRuns |-> [pc |-> "idle", clo |-> NoClosure, match |-> "null"]]
    /\ now = StartMs
    /\ linkUp = FALSE
    /\ wire = <<>>
    /\ connPc = "permissions"
    /\ discPc = "idle"
    /\ sink = <<>>
    /\ out = NoOut

NoVerdict == [kind |-> "none", userId |-> "null", sq |-> 0]
NoResult == Unverified(<<>>)
NoMatcher ==
    [newEmbedding |-> Emb(0, <<>>), users |-> <<>>, verdict |-> NoVerdict,
     result |-> NoResult, previous |-> NoResult]

(* The location reporter, the user store and the splash screen before     *)
(* anything has run in them.                                               *)
ReporterIdle == [pc |-> "idle"]
StoreIdle == [rows |-> <<>>, nextId |-> 0, last |-> "none"]
SplashIdle == [pc |-> "idle"]
AsideIdle == reporter = ReporterIdle /\ store = StoreIdle /\ splash = SplashIdle

Init == ScreenInit /\ matcher = NoMatcher /\ AsideIdle

(* ------------------------------- React --------------------------------- *)
(* No render is pending.  A render requested by a state change runs       *)
(* before every JS task that starts after the change (a promise settling,  *)
(* a received line, a button press); only the calls runOnJS has already    *)
(* queued, and the frames on the worklet thread, can precede it.           *)
Settled == rendered = st

(* A render after a state change: new closures read the new values; the    *)
(* frame processor is re-created only when isScanning or lastCaptureTime   *)
(* changed since the last render.                                          *)
Render ==
    /\ rendered # st
    /\ rendered' = st
    /\ worklet' = IF st.isScanning # rendered.isScanning
                     \/ st.lastCaptureTime # rendered.lastCaptureTime
                  THEN [lastCaptureTime |-> st.lastCaptureTime, cav |-> Closure(st)]
                  ELSE worklet
    /\ out' = NoOut
    /\ UNCHANGED <<aside, matcher, st, jsQueue, runs, now, linkUp, wire, connPc, discPc,
                   sink>>

Tick ==
    /\ now < StartMs + MaxTicks * TickMs
    /\ now' = now + TickMs
    /\ out' = NoOut
    /\ UNCHANGED <<aside, matcher, st, rendered, worklet, jsQueue, runs, linkUp, wire,
                   connPc, discPc, sink>>

(* ------------------------------ gate link ------------------------------ *)
(* device.write(line): the line reaches the transport when the connection  *)
(* is open and the write does not fail; otherwise write throws.            *)
Written(ok) == linkUp /\ ok

(* sendCommand as the closure c sees the hook state: which of its three    *)
(* paths the call takes.                                                   *)
sendCommandPath(c, command) ==
    IF ~c.isConnected \/ c.device = "null" THEN "not connected"
    ELSE IF ~c.isAuthenticated /\ ~startsWith(command, "AUTHENTICATE")
         THEN "not authenticated"
         ELSE "write"

(* sendCommand(command) called through closure c; ok: the write succeeds.   *)
sendCommand(c, command, ok) ==
    LET path == sendCommandPath(c, command)
    IN /\ wire' = IF path = "write" /\ Written(ok) THEN Append(wire, Line(command)) ELSE wire
       /\ out' = [op |-> "sendCommand", command |-> command,
                  report |-> IF path # "write" THEN path
                             ELSE IF Written(ok) THEN "sent" ELSE "write error",
                  metric |-> FALSE, frame |-> <<>>, published |-> <<>>]

ConnectReturn(value) ==
    [op |-> "connectToESP32", command |-> <<>>, report |-> value, metric |-> FALSE,
     frame |-> <<>>, published |-> <<>>]

(* connectToESP32, to its permission result: isBluetoothEnabled or the     *)
(* permission calls throw, or permissions are denied, or granted.          *)
ConnectPermissions ==
    /\ Settled
    /\ connPc = "permissions"
    /\ \E outcome \in {"throw", "denied", "granted"} :
          /\ st' = IF outcome = "throw" THEN st
                   ELSE [st EXCEPT !.hasPermissions = (outcome = "granted")]
          /\ connPc' = IF outcome = "granted" THEN "bonded" ELSE "idle"
          /\ out' = IF outcome = "granted" THEN NoOut ELSE ConnectReturn("false")
    /\ UNCHANGED <<aside, matcher, rendered, worklet, jsQueue, runs, now, linkUp, wire,
                   discPc, sink>>

(* getBondedDevices and the search for ESP32_Gate. *)
ConnectBonded ==
    /\ Settled
    /\ connPc = "bonded"
    /\ \E outcome \in {"throw", "not found", "found"} :
          /\ st' = IF outcome = "found" THEN [st EXCEPT !.device = ESP32_DEVICE_NAME] ELSE st
          /\ connPc' = IF outcome = "found" THEN "connecting" ELSE "idle"
          /\ out' = IF outcome = "found" THEN NoOut ELSE ConnectReturn("false")
    /\ UNCHANGED <<aside, matcher, rendered, worklet, jsQueue, runs, now, linkUp, wire,
                   discPc, sink>>

(* A failed espDevice.connect() as it would be if connectToESP32 called    *)
(* itself again from its catch block.                                      *)
ConnectFailRetry ==
    /\ Settled
    /\ connPc = "connecting"
    /\ connPc' = "permissions"
    /\ \E value \in {"false", "undefined"} : out' = ConnectReturn(value)
    /\ UNCHANGED <<aside, matcher, st, rendered, worklet, jsQueue, runs, now, linkUp, wire,
                   discPc, sink>>

(* espDevice.connect() throws or resolves falsy: nothing is set.           *)
ConnectFail ==
    /\ Settled
    /\ connPc = "connecting"
    /\ connPc' = "idle"
    /\ \E value \in {"false", "undefined"} : out' = ConnectReturn(value)
    /\ UNCHANGED <<aside, matcher, st, rendered, worklet, jsQueue, runs, now, linkUp, wire,
                   discPc, sink>>

(* espDevice.connect() resolves: setIsConnected(true), the listener is     *)
(* registered and the authenticate line is written (or the write throws).  *)
ConnectOpen ==
    /\ Settled
    /\ connPc = "connecting"
    /\ connPc' = "idle"
    /\ linkUp' = TRUE
    /\ st' = [st EXCEPT !.isConnected = TRUE]
    /\ \E ok \in BOOLEAN :
          /\ wire' = (IF linkUp THEN wire ELSE <<>>)
                       \o (IF ok THEN <<Line(AuthenticateCommand)>> ELSE <<>>)
          /\ out' = ConnectReturn(IF ok THEN "true" ELSE "false")
    /\ UNCHANGED <<aside, matcher, rendered, worklet, jsQueue, runs, now, discPc, sink>>

(* The Connect/Disconnect button: toggleBluetoothConnection(!isConnected)  *)
(* of the last render.                                                     *)
PressConnect ==
    /\ Settled
    /\ cameraMounted(rendered)
    /\ ~rendered.isConnected
    /\ connPc = "idle"
    /\ Len(wire) < MaxWire
    /\ connPc' = "permissions"
    /\ out' = NoOut
    /\ UNCHANGED <<aside, matcher, st, rendered, worklet, jsQueue, runs, now, linkUp, wire,
                   discPc, sink>>

(* disconnectFromESP32 through the last render's closure: with a device    *)
(* and isConnected it awaits device.disconnect(), else it returns false.   *)
PressDisconnect ==
    /\ Settled
    /\ cameraMounted(rendered)
    /\ rendered.isConnected
    /\ discPc = "idle"
    /\ discPc' = IF rendered.device # "null" THEN "disconnecting" ELSE "idle"
    /\ out' = NoOut
    /\ UNCHANGED <<aside, matcher, st, rendered, worklet, jsQueue, runs, now, linkUp, wire,
                   connPc, sink>>

(* The end of a disconnect as it would be without setIsAuthenticated(false). *)
DisconnectDoneKeepAuthenticated ==
    /\ Settled
    /\ discPc = "disconnecting"
    /\ discPc' = "idle"
    /\ linkUp' = FALSE
    /\ st' = [st EXCEPT !.isConnected = FALSE, !.device = "null"]
    /\ out' = NoOut
    /\ UNCHANGED <<aside, matcher, rendered, worklet, jsQueue, runs, now, wire, connPc,
                   sink>>

(* device.disconnect() resolves: the three setters run. *)
DisconnectDone ==
    /\ Settled
    /\ discPc = "disconnecting"
    /\ discPc' = "idle"
    /\ linkUp' = FALSE
    /\ st' = [st EXCEPT !.isConnected = FALSE, !.isAuthenticated = FALSE, !.device = "null"]
    /\ out' = NoOut
    /\ UNCHANGED <<aside, matcher, rendered, worklet, jsQueue, runs, now, wire, connPc,
                   sink>>

(* device.disconnect() throws: caught, nothing is set. *)
DisconnectThrow ==
    /\ Settled
    /\ discPc = "disconnecting"
    /\ discPc' = "idle"
    /\ out' = NoOut
    /\ UNCHANGED <<aside, matcher, st, rendered, worklet, jsQueue, runs, now, linkUp, wire,
                   connPc, sink>>

(* The Retry Authentication button of the authentication-required screen.  *)
PressRetryAuthentication ==
    /\ Settled
    /\ rendered.hasPermissions /\ rendered.isConnected /\ ~rendered.isAuthenticated
    /\ Len(wire) < MaxWire
    /\ \E ok \in BOOLEAN : sendCommand(Closure(rendered), RetryAuthenticateCommand, ok)
    /\ UNCHANGED <<aside, matcher, st, rendered, worklet, jsQueue, runs, now, linkUp,
                   connPc, discPc, sink>>

(* The Retry Bluetooth Permissions button: handleRetryPermissions.         *)
PressRetryPermissions ==
    /\ Settled
    /\ ~rendered.hasPermissions
    /\ connPc = "idle"
    /\ Len(wire) < MaxWire
    /\ \E granted \in BOOLEAN :
          /\ st' = IF granted THEN [st EXCEPT !.hasPermissions = TRUE] ELSE st
          /\ connPc' = IF granted THEN "permissions" ELSE "idle"
    /\ out' = NoOut
    /\ UNCHANGED <<aside, matcher, rendered, worklet, jsQueue, runs, now, linkUp, wire,
                   discPc, sink>>

(* data.data.trim() on a received line: whitespace tokens at either end    *)
(* are dropped.                                                            *)
IsSpace(t) == t \in {" ", "\r", "\n"}
RECURSIVE TrimLeft(_)
TrimLeft(raw) == IF raw # <<>> /\ IsSpace(Head(raw)) THEN TrimLeft(Tail(raw)) ELSE raw
RECURSIVE TrimRight(_)
TrimRight(raw) ==
    IF raw # <<>> /\ IsSpace(raw[Len(raw)]) THEN TrimRight(SubSeq(raw, 1, Len(raw) - 1)) ELSE raw
trim(raw) == TrimRight(TrimLeft(raw))

InboundLines ==
    { <<"AUTH_SUCCESS">>, <<"AUTH_SUCCESS", "\r", "\n">>, <<"AUTH_FAILED">>,
      <<" ", "AUTH_FAILED", "\n">>, <<"NOT_AUTHENTICATED">>, <<"GATE_OPENED">> }

(* The listener as it would be if every line other than AUTH_SUCCESS were  *)
(* taken for a failed authentication.                                      *)
onDataReceivedElseFailed(raw) ==
    LET message == trim(raw)
    IN IF message = <<"AUTH_SUCCESS">> THEN [st EXCEPT !.isAuthenticated = TRUE]
       ELSE [st EXCEPT !.isAuthenticated = FALSE]

(* The listener as it would be if NOT_AUTHENTICATED also cleared the       *)
(* authenticated flag.                                                     *)
onDataReceivedDemoting(raw) ==
    LET message == trim(raw)
    IN IF message = <<"AUTH_SUCCESS">> THEN [st EXCEPT !.isAuthenticated = TRUE]
       ELSE IF message \in {<<"AUTH_FAILED">>, <<"NOT_AUTHENTICATED">>}
            THEN [st EXCEPT !.isAuthenticated = FALSE]
            ELSE st

(* The onDataReceived listener, registered by connectToESP32 on every      *)
(* connection it opens: a line can arrive whenever the connection is open. *)
onDataReceived(raw) ==
    LET message == trim(raw)
    IN IF message = <<"AUTH_SUCCESS">> THEN [st EXCEPT !.isAuthenticated = TRUE]
       ELSE IF message = <<"AUTH_FAILED">> THEN [st EXCEPT !.isAuthenticated = FALSE]
       ELSE st

(* The title of the alert the listener raises for a line, if any. *)
onDataReceivedAlert(raw) ==
    LET message == trim(raw)
    IN IF message = <<"AUTH_FAILED">> THEN "Authentication Error"
       ELSE IF message = <<"NOT_AUTHENTICATED">> THEN "Error"
       ELSE "none"

Inbound ==
    /\ Settled
    /\ linkUp
    /\ \E raw \in InboundLines :
          /\ st' = onDataReceived(raw)
          /\ out' = [op |-> "onDataReceived", command |-> trim(raw),
                      report |-> onDataReceivedAlert(raw),
                      metric |-> FALSE, frame |-> <<>>, published |-> <<>>]
    /\ UNCHANGED <<aside, matcher, rendered, worklet, jsQueue, runs, now, linkUp, wire,
                   connPc, discPc, sink>>

(* The connection drops (the controller powers off, goes out of range):    *)
(* the hook registers no handler for it.                                   *)
LinkLost ==
    /\ linkUp
    /\ linkUp' = FALSE
    /\ out' = NoOut
    /\ UNCHANGED <<aside, matcher, st, rendered, worklet, jsQueue, runs, now, wire, connPc,
                   discPc, sink>>

(* --------------------------- capture trigger --------------------------- *)
(* The detection model's outputs for a frame: a box [ymin, xmin, ymax,     *)
(* xmax] in tenths of the frame, and a score in tenths.                    *)
RawFace(ymin, xmin, ymax, xmax, score) == [box |-> <<ymin, xmin, ymax, xmax>>, score |-> score]
GoodFace == RawFace(2, 3, 8, 7, 9)
WeakFace == RawFace(2, 3, 8, 7, 6)
FaintFace == RawFace(2, 3, 8, 7, 4)
CornerFace == RawFace(0, 0, 5, 4, 9)
RawFaces == {GoodFace, WeakFace, FaintFace, CornerFace}

RECURSIVE SeqsUpTo(_, _)
SeqsUpTo(S, n) ==
    IF n = 0 THEN {<<>>}
    ELSE SeqsUpTo(S, n - 1) \cup {Append(q, x) : q \in SeqsUpTo(S, n - 1), x \in S}

(* Lengths are kept in tenths of a pixel: a fraction in tenths times the   *)
(* frame dimension.  The array index i of the source is i + 1 here.        *)
parseDetection(raw, width, height) ==
    [x |-> raw.box[2] * width, y |-> raw.box[1] * height,
     width |-> (raw.box[4] - raw.box[2]) * width,
     height |-> (raw.box[3] - raw.box[1]) * height,
     score |-> raw.score]

(* scores[i] > 0.5 *)
Accepted(raw) == raw.score > 5

RECURSIVE parseDetections(_, _, _)
parseDetections(outputs, width, height) ==
    IF outputs = <<>> THEN <<>>
    ELSE (IF Accepted(Head(outputs))
          THEN <<parseDetection(Head(outputs), width, height)>> ELSE <<>>)
         \o parseDetections(Tail(outputs), width, height)

Abs(n) == IF n < 0 THEN -n ELSE n

(* The predicate of detections.find: centred, sized and confident.  Both   *)
(* sides of each comparison are in tenths of a pixel (doubled for the      *)
(* centres); the tolerance and the size limits are fractions of the frame  *)
(* WIDTH on both axes.                                                     *)
isCenteredByHeight(det, width, height) ==
    /\ Abs(2 * det.x + det.width - 10 * width) < 4 * width
    /\ Abs(2 * det.y + det.height - 10 * height) < 4 * height
isCentered(det, width, height) ==
    /\ Abs(2 * det.x + det.width - 10 * width) < 4 * width
    /\ Abs(2 * det.y + det.height - 10 * height) < 4 * width
isValidSize(det, width) ==
    /\ det.width >= 3 * width /\ det.width <= 7 * width
    /\ det.height >= 3 * width /\ det.height <= 7 * width
isValidFace(det, width, height) ==
    isCentered(det, width, height) /\ isValidSize(det, width) /\ det.score > 7

hasValidFace(detections, width, height) ==
    \E k \in 1..Len(detections) : isValidFace(detections[k], width, height)

(* The auto-capture decision of the frame processor on its detections, as  *)
(* the worklet w sees lastCaptureTime.                                     *)
decide(detections, width, height, lastCaptureTime, t) ==
    IF Len(detections) = 0 THEN "no face"
    ELSE IF t - lastCaptureTime < CooldownMs THEN "cooldown"
    ELSE IF hasValidFace(detections, width, height) THEN "fire"
    ELSE "no valid face"

(* ----------------------------- frame loop ------------------------------ *)
Started(i) == runs[i].pc # "idle"
StartedRuns == Cardinality({i \in 1..MaxRuns : Started(i)})
QueuedRuns == Cardinality({k \in 1..Len(jsQueue) : jsQueue[k].fn = "captureAndVerify"})
InFlight(i) == runs[i].pc \notin {"idle", "done"}

(* The model outputs of a frame: [boxes, scores] as a list of faces, or an  *)
(* output with fewer than two entries.                                     *)
FrameOutputs ==
    {[valid |-> TRUE, faces |-> f] : f \in SeqsUpTo(RawFaces, MaxFaces)}
        \cup {[valid |-> FALSE, faces |-> <<>>]}


(* The frame processor as it would decide without its check of the model   *)
(* outputs: an output with fewer than two entries gives no detection.      *)
frameDecisionUnchecked(outputs) ==
    IF worklet.cav.isScanning THEN "skipped"
    ELSE decide(parseDetections(outputs.faces, FrameWidth, FrameHeight), FrameWidth, FrameHeight,
                worklet.lastCaptureTime, now)

(* What the frame processor does with a frame whose model outputs are      *)
(* given (an invalid output throws).                                       *)
frameDecision(outputs) ==
    IF worklet.cav.isScanning THEN "skipped"
    ELSE IF ~outputs.valid THEN "error"
    ELSE decide(parseDetections(outputs.faces, FrameWidth, FrameHeight), FrameWidth, FrameHeight,
                worklet.lastCaptureTime, now)

(* What the frame processor publishes of a frame: past the early return    *)
(* and the check of the model outputs, runOnJS(setDetections)(detections)  *)
(* with the detections parsed from the outputs, whatever the auto-capture  *)
(* logic decides after it.                                                 *)
(* The detections as they would be published by a frame processor that    *)
(* updates the UI only where it dispatches.                                *)
framePublishedOnFire(outputs, decision) ==
    IF decision # "fire" THEN <<>>
    ELSE <<parseDetections(outputs.faces, FrameWidth, FrameHeight)>>
framePublished(outputs, decision) ==
    IF decision \in {"skipped", "error"} THEN <<>>
    ELSE <<parseDetections(outputs.faces, FrameWidth, FrameHeight)>>

(* What a frame reports to the UI: the detections and the "Frame processed *)
(* in" entry of a frame that got past the model, 'No face detected' as the *)
(* status, or the message of the error the catch block caught.             *)
FrameReport(outputs, decision) ==
    [op |-> "frameProcessor", command |-> <<>>, report |-> decision,
     metric |-> decision \notin {"skipped", "error"},
     frame |-> <<outputs>>, published |-> framePublished(outputs, decision)]

(* The calls a firing trigger queues onto the JS thread, oldest first:     *)
(* runOnJS(setLastCaptureTime)(now), then runOnJS(captureAndVerify)()      *)
(* (dispatchCaptureFirst: the two as they would be queued the other way    *)
(* round).                                                                 *)
dispatchCaptureFirst(w, t) ==
    << [fn |-> "captureAndVerify", t |-> t, clo |-> w.cav],
       [fn |-> "setLastCaptureTime", t |-> t, clo |-> NoClosure] >>
dispatch(w, t) ==
    << [fn |-> "setLastCaptureTime", t |-> t, clo |-> NoClosure],
       [fn |-> "captureAndVerify", t |-> t, clo |-> w.cav] >>

(* One frame through the frame processor, on the worklet thread, with the  *)
(* model outputs drawn from outputsSet.  observed: what the frame reports  *)
(* to the UI is kept in out (it feeds back into nothing the screen does).  *)
FrameOn(outputsSet, observed) ==
    /\ cameraMounted(rendered)
    /\ \E outputs \in outputsSet :
          LET decision == frameDecision(outputs)
          IN /\ decision = "fire" => QueuedRuns + StartedRuns < MaxRuns
             /\ jsQueue' = IF decision = "fire" THEN jsQueue \o dispatch(worklet, now)
                           ELSE jsQueue
             /\ out' = IF observed THEN FrameReport(outputs, decision) ELSE NoOut
    /\ UNCHANGED <<aside, matcher, st, rendered, worklet, runs, now, linkUp, wire, connPc,
                   discPc, sink>>

Frame == FrameOn(FrameOutputs, FALSE)
ObservedFrame == FrameOn(FrameOutputs, TRUE)

(* ------------------------------ pipeline ------------------------------- *)
(* What a run reports (setStatus, setError), and whether a call started one. *)
RunReport(what) ==
    [op |-> "captureAndVerify", command |-> <<>>, report |-> what, metric |-> FALSE,
     frame |-> <<>>, published |-> <<>>]

(* What a run reports when it reaches setPerformanceMetrics: the status,   *)
(* and that a "Processed in ...ms" entry was added.                        *)
RunMeasured(what) == [RunReport(what) EXCEPT !.metric = TRUE]

FreeSlot == StartedRuns + 1

(* The guard of captureAndVerify, called through closure c: camera.current *)
(* is set while the Camera is rendered.                                    *)
captureAndVerifyGuard(c) == cameraMounted(rendered) /\ ~c.isScanning

(* captureAndVerify up to its first await: setIsScanning(true), takePhoto. *)
StartRun(c) ==
    /\ st' = [st EXCEPT !.isScanning = TRUE]
    /\ runs' = [runs EXCEPT ![FreeSlot] =
                  [pc |-> "takePhoto", clo |-> c, match |-> "null"]]

(* The JS thread runs the oldest call queued by runOnJS. *)
RunOnJSSetLastCaptureTime ==
    /\ jsQueue # <<>>
    /\ Head(jsQueue).fn = "setLastCaptureTime"
    /\ jsQueue' = Tail(jsQueue)
    /\ st' = [st EXCEPT !.lastCaptureTime = Head(jsQueue).t]
    /\ out' = NoOut
    /\ UNCHANGED <<aside, matcher, rendered, worklet, runs, now, linkUp, wire, connPc, discPc,
                   sink>>

RunOnJSCaptureAndVerify ==
    /\ jsQueue # <<>>
    /\ Head(jsQueue).fn = "captureAndVerify"
    /\ jsQueue' = Tail(jsQueue)
    /\ IF captureAndVerifyGuard(Head(jsQueue).clo)
       THEN StartRun(Head(jsQueue).clo)
       ELSE UNCHANGED <<st, runs>>
    /\ out' = RunReport(IF captureAndVerifyGuard(Head(jsQueue).clo) THEN "started"
                         ELSE "returned")
    /\ UNCHANGED <<aside, matcher, rendered, worklet, now, linkUp, wire, connPc, discPc,
                   sink>>

(* The Capture button as it would be if a manual capture also called       *)
(* setLastCaptureTime(Date.now()).                                         *)
PressCaptureStamped ==
    /\ Settled
    /\ cameraMounted(rendered)
    /\ ~rendered.isScanning
    /\ QueuedRuns + StartedRuns < MaxRuns
    /\ st' = [st EXCEPT !.isScanning = TRUE, !.lastCaptureTime = now]
    /\ runs' = [runs EXCEPT ![FreeSlot] =
                  [pc |-> "takePhoto", clo |-> Closure(rendered), match |-> "null"]]
    /\ out' = RunReport("started")
    /\ UNCHANGED <<aside, matcher, rendered, worklet, jsQueue, now, linkUp, wire, connPc,
                   discPc, sink>>

(* The Capture button (disabled while the last render shows isScanning).   *)
PressCapture ==
    /\ Settled
    /\ cameraMounted(rendered)
    /\ ~rendered.isScanning
    /\ QueuedRuns + StartedRuns < MaxRuns
    /\ StartRun(Closure(rendered))
    /\ out' = RunReport("started")
    /\ UNCHANGED <<aside, matcher, rendered, worklet, jsQueue, now, linkUp, wire, connPc,
                   discPc, sink>>

(* The end of a run as it would be without the finally block. *)
EndRunWithoutFinally(i) ==
    /\ st' = st
    /\ runs' = [runs EXCEPT ![i] = [pc |-> "done", clo |-> NoClosure, match |-> "null"]]

(* The end of a run: finally, setIsScanning(false). *)
EndRun(i) ==
    /\ st' = [st EXCEPT !.isScanning = FALSE]
    /\ runs' = [runs EXCEPT ![i] = [pc |-> "done", clo |-> NoClosure, match |-> "null"]]


(* A failed collaborator call as it would be if the catch block called     *)
(* captureAndVerify again.                                                 *)
RunThrowRetry(i) ==
    /\ Settled
    /\ runs[i].pc \in {"takePhoto", "readFile"}
    /\ EndRun(i)
    /\ jsQueue' = Append(jsQueue, [fn |-> "captureAndVerify", t |-> now, clo |-> runs[i].clo])
    /\ out' = RunReport("error")
    /\ UNCHANGED <<aside, matcher, rendered, worklet, now, linkUp, wire, connPc, discPc, sink>>

(* A collaborator call of the run fails: catch, then finally. *)
RunThrow(i) ==
    /\ Settled
    /\ runs[i].pc \in {"takePhoto", "readFile"}
    /\ EndRun(i)
    /\ out' = RunReport("error")
    /\ UNCHANGED <<aside, matcher, rendered, worklet, jsQueue, now, linkUp, wire, connPc,
                   discPc, sink>>

RunTakePhoto(i) ==
    /\ Settled
    /\ runs[i].pc = "takePhoto"
    /\ runs' = [runs EXCEPT ![i].pc = "readFile"]
    /\ out' = NoOut
    /\ UNCHANGED <<aside, matcher, st, rendered, worklet, jsQueue, now, linkUp, wire, connPc,
                   discPc, sink>>

(* createResizedImage and readFile resolve (pc "readFile" stands for both  *)
(* awaits, which touch no state); the image is decoded, the face model run *)
(* and verifyFace called on its embedding: it returns, or awaits           *)
(* logVerification for the match.                                          *)
RunVerify(i) ==
    /\ Settled
    /\ runs[i].pc = "readFile"
    /\ \E embedding \in ModelEmbeddings :
          LET d == verifyFaceDecision(embedding, runs[i].clo.cachedUsers)
          IN IF d.kind = "match"
             THEN /\ runs' = [runs EXCEPT ![i].pc = "logVerification", ![i].match = d.userId]
                  /\ st' = st
                  /\ out' = NoOut
             ELSE /\ EndRun(i)
                  /\ out' = RunMeasured(d.kind)
    /\ UNCHANGED <<aside, matcher, rendered, worklet, jsQueue, now, linkUp, wire, connPc,
                   discPc, sink>>

(* logVerification rejects: verifyFace catches and returns unverified.     *)
RunLogFail(i) ==
    /\ Settled
    /\ runs[i].pc = "logVerification"
    /\ EndRun(i)
    /\ out' = RunMeasured("error during verification")
    /\ UNCHANGED <<aside, matcher, rendered, worklet, jsQueue, now, linkUp, wire, connPc,
                   discPc, sink>>

(* logVerification resolves: the run is verified, and with isConnected and *)
(* isAuthenticated of its closure it calls sendCommand('FACE_DETECTED').   *)
RunLogged(i) ==
    /\ Settled
    /\ runs[i].pc = "logVerification"
    /\ sink' = Append(sink, runs[i].match)
    /\ LET c == runs[i].clo
       IN IF c.isConnected /\ c.isAuthenticated
          THEN /\ \E ok \in BOOLEAN : sendCommand(c, FaceDetectedCommand, ok)
               /\ IF sendCommandPath(c, FaceDetectedCommand) = "write"
                  THEN /\ runs' = [runs EXCEPT ![i].pc = "sendCommand"]
                       /\ st' = st
                  ELSE EndRun(i)
          ELSE /\ EndRun(i)
               /\ wire' = wire
               /\ out' = RunMeasured("verified")
    /\ UNCHANGED <<aside, matcher, rendered, worklet, jsQueue, now, linkUp, connPc, discPc>>

(* device.write of the run's sendCommand settles. *)
RunSent(i) ==
    /\ Settled
    /\ runs[i].pc = "sendCommand"
    /\ EndRun(i)
    /\ out' = RunMeasured("verified")
    /\ UNCHANGED <<aside, matcher, rendered, worklet, jsQueue, now, linkUp, wire, connPc,
                   discPc, sink>>

RunStep ==
    \E i \in 1..MaxRuns :
        \/ RunTakePhoto(i)
        \/ RunVerify(i)
        \/ RunThrow(i)
        \/ RunLogFail(i)
        \/ RunLogged(i)
        \/ RunSent(i)

Next ==
    \/ Render
    \/ Tick
    \/ ConnectPermissions
    \/ ConnectBonded
    \/ ConnectFail
    \/ ConnectOpen
    \/ PressConnect
    \/ PressDisconnect
    \/ DisconnectDone
    \/ DisconnectThrow
    \/ PressRetryAuthentication
    \/ PressRetryPermissions
    \/ Inbound
    \/ LinkLost
    \/ Frame
    \/ RunOnJSSetLastCaptureTime
    \/ RunOnJSCaptureAndVerify
    \/ PressCapture
    \/ RunStep

Spec == Init /\ [][Next]_vars

(* ------------------ the screen past its connection --------------------- *)
(* The screen once connectToESP32 has returned and the user leaves the     *)
(* connection alone: Bluetooth permissions are held, and the gate link is  *)
(* either Disconnected (the paired device was not found) or authenticated  *)
(* on an open connection.                                                  *)
ScreenReady ==
    /\ \E users \in {<<>>, StoredUsers}, connected \in BOOLEAN :
          /\ st = [isScanning |-> FALSE, lastCaptureTime |-> 0, isConnected |-> connected,
                   isAuthenticated |-> connected,
                   device |-> IF connected THEN ESP32_DEVICE_NAME ELSE "null",
                   hasPermissions |-> TRUE, cachedUsers |-> users]
          /\ linkUp = connected
          /\ wire = IF connected THEN <<Line(AuthenticateCommand)>> ELSE <<>>
    /\ rendered = st
    /\ worklet = [lastCaptureTime |-> 0, cav |-> Closure(st)]
    /\ jsQueue = <<>>
    /\ runs = [i \in 1..MaxRuns |-> [pc |-> "idle", clo |-> NoClosure, match |-> "null"]]
    /\ now = StartMs
    /\ connPc = "idle"
    /\ discPc = "idle"
    /\ sink = <<>>
    /\ out = NoOut
    /\ matcher = NoMatcher
    /\ AsideIdle

CaptureNext ==
    \/ Render
    \/ Tick
    \/ Inbound
    \/ LinkLost
    \/ ObservedFrame
    \/ RunOnJSSetLastCaptureTime
    \/ RunOnJSCaptureAndVerify
    \/ PressCapture
    \/ RunStep

(* The JS thread runs every task it has queued: a pending render runs      *)
(* (Render), a call queued by runOnJS runs, and the promise a run awaits   *)
(* settles and its continuation runs (RunStep), however often other tasks  *)
(* come in between.                                                        *)
CaptureSpec ==
    /\ ScreenReady
    /\ [][CaptureNext]_vars
    /\ WF_vars(Render)
    /\ WF_vars(RunOnJSSetLastCaptureTime)
    /\ WF_vars(RunOnJSCaptureAndVerify)
    /\ SF_vars(RunStep)

(* --------------------- the frame processor on its own ------------------- *)
(* Faces for the frame processor: the faces of the screen, and faces at    *)
(* and next to each limit of the trigger (score 0.7 and 0.5, width 0.3 and *)
(* 0.7 of the frame width and one tenth outside, a centre 0.2 of the frame *)
(* width off and one tenth less, a height and a vertical offset that the   *)
(* frame height would judge differently from the frame width).             *)
TriggerFaces ==
    { GoodFace, WeakFace, FaintFace, CornerFace,
      RawFace(2, 3, 8, 7, 7), RawFace(2, 3, 8, 7, 5),
      RawFace(2, 3, 8, 6, 9), RawFace(2, 4, 8, 6, 9),
      RawFace(2, 1, 8, 8, 9), RawFace(2, 1, 8, 9, 9),
      RawFace(2, 5, 8, 9, 9), RawFace(2, 4, 8, 9, 9),
      RawFace(0, 3, 9, 7, 9), RawFace(3, 3, 6, 7, 9), RawFace(0, 3, 5, 7, 9) }

TriggerOutputs ==
    {[valid |-> TRUE, faces |-> f] : f \in SeqsUpTo(TriggerFaces, MaxTriggerFaces)}
        \cup {[valid |-> FALSE, faces |-> <<>>]}

(* The screen with the camera running and no call queued: no capture yet   *)
(* or the last one at a known time, and either no run in flight or one     *)
(* that the last render has seen.                                          *)
FrameInit ==
    /\ \E last \in {0, 1, StartMs}, scanning \in BOOLEAN, t \in {StartMs, StartMs + CooldownMs} :
          /\ st = [isScanning |-> scanning, lastCaptureTime |-> last, isConnected |-> FALSE,
                   isAuthenticated |-> FALSE, device |-> "null", hasPermissions |-> TRUE,
                   cachedUsers |-> StoredUsers]
          /\ now = t
          /\ runs = [i \in 1..MaxRuns |->
                       IF scanning /\ i = 1
                       THEN [pc |-> "takePhoto",
                             clo |-> [Closure(st) EXCEPT !.isScanning = FALSE],
                             match |-> "null"]
                       ELSE [pc |-> "idle", clo |-> NoClosure, match |-> "null"]]
    /\ rendered = st
    /\ worklet = [lastCaptureTime |-> st.lastCaptureTime, cav |-> Closure(st)]
    /\ jsQueue = <<>>
    /\ linkUp = FALSE
    /\ wire = <<>>
    /\ connPc = "idle"
    /\ discPc = "idle"
    /\ sink = <<>>
    /\ out = NoOut
    /\ matcher = NoMatcher
    /\ AsideIdle

TriggerFrame == FrameOn(TriggerOutputs, TRUE)

FrameSpec == FrameInit /\ [][TriggerFrame]_vars

(* ------------------------- the matcher on its own ----------------------- *)
(* Embeddings for the matcher: components in tenths, at distances 0.5      *)
(* (three ways), 0.6, 0.8 and 1.0 from the zero vector, and one of a wrong *)
(* length.                                                                 *)
MatchEmbeddings ==
    { Emb(EmbeddingLength, <<>>), Emb(EmbeddingLength, <<5>>), Emb(EmbeddingLength, <<0, 5>>),
      Emb(EmbeddingLength, <<3, 4>>), Emb(EmbeddingLength, <<6>>), Emb(EmbeddingLength, <<8>>),
      Emb(EmbeddingLength, <<10>>), Emb(EmbeddingLength - 1, <<>>) }

(* The embedding argument of saveUser (typed any): an array, an array-like *)
(* object such as a Float32Array, or neither; its numbers; and whether     *)
(* every component is a finite number.                                     *)
Argument(shape, numbers, finite) == [shape |-> shape, numbers |-> numbers, finite |-> finite]
ArrayOf(numbers) == Argument("array", numbers, TRUE)

(* isValidUser of saveUser and saveMultipleUsers: a userId that is not     *)
(* blank and an array, or array-like object, that is not empty and holds   *)
(* finite numbers only; the length of the embedding is not looked at.      *)
isValidUser(userId, embedding) ==
    /\ trim(userId) # <<>>
    /\ \/ embedding.shape = "array"
       \/ embedding.shape = "typed" /\ embedding.numbers.len > 0
    /\ embedding.numbers.len # 0
    /\ embedding.finite

(* The embeddings a caller may hand to saveUser. *)
SavedEmbeddings == MatchEmbeddings \cup {Emb(0, <<>>)}

(* The rows getUsers returns, every row as saveUser stored it (JSON.parse  *)
(* of the stored JSON.stringify gives the numbers back); getUsers drops no *)
(* row it can parse.  userId is unique in Users, so the k-th row has its   *)
(* own id.                                                                 *)
UserIds == <<"u1", "u2", "u3", "u4">>
Users(embeddings) ==
    [k \in 1..Len(embeddings) |-> [userId |-> UserIds[k], embedding |-> embeddings[k]]]
Populations ==
    {Users(e) : e \in {q \in SeqsUpTo(SavedEmbeddings, MaxUsers) :
                          \A k \in 1..Len(q) : isValidUser(<<UserIds[k]>>, ArrayOf(q[k]))}}

MatchInit ==
    /\ ScreenInit
    /\ AsideIdle
    /\ \E newEmbedding \in MatchEmbeddings, users \in Populations :
          matcher = [NoMatcher EXCEPT !.newEmbedding = newEmbedding, !.users = users]

(* verifyFace(newEmbedding) over cachedUsers = users, up to its return or   *)
(* its await of logVerification.                                            *)
VerifyFace ==
    /\ matcher.verdict = NoVerdict
    /\ LET d == verifyFaceDecision(matcher.newEmbedding, matcher.users)
       IN matcher' = [matcher EXCEPT
                         !.verdict = d,
                         !.result = IF d.kind = "match" THEN NoResult
                                    ELSE verifyFaceResult(matcher.newEmbedding, d, FALSE)]
    /\ UNCHANGED <<aside, screenVars>>

(* logVerification resolves: the row is in VerificationLogs and verifyFace *)
(* returns verified.                                                       *)
VerifyFaceLogged ==
    /\ matcher.verdict.kind = "match"
    /\ matcher.result = NoResult
    /\ sink' = Append(sink, matcher.verdict.userId)
    /\ matcher' = [matcher EXCEPT
                      !.result = verifyFaceResult(matcher.newEmbedding, matcher.verdict, TRUE)]
    /\ UNCHANGED <<aside, st, rendered, worklet, jsQueue, runs, now, linkUp, wire, connPc,
                   discPc, out>>

(* logVerification rejects: caught by verifyFace. *)
VerifyFaceLogFail ==
    /\ matcher.verdict.kind = "match"
    /\ matcher.result = NoResult
    /\ matcher' = [matcher EXCEPT
                      !.result = verifyFaceResult(matcher.newEmbedding, matcher.verdict, FALSE)]
    /\ UNCHANGED <<aside, screenVars>>

(* verifyFace is called once more on the same embedding and users. *)
VerifyFaceAgain ==
    /\ matcher.result # NoResult
    /\ matcher.previous = NoResult
    /\ matcher' = [matcher EXCEPT !.previous = matcher.result, !.verdict = NoVerdict,
                                  !.result = NoResult]
    /\ UNCHANGED <<aside, screenVars>>

MatchNext ==
    \/ VerifyFace
    \/ VerifyFaceLogged
    \/ VerifyFaceLogFail
    \/ VerifyFaceAgain

MatchSpec == MatchInit /\ [][MatchNext]_vars

(* ------------------------- the location reporter ------------------------ *)
(* useLocation while its component is mounted.  Positions are latitude and *)
(* longitude in millionths of a degree, next to latitude 0 and longitude   *)
(* 0, where getDistanceInMeters (the haversine formula, R = 6371e3) is     *)
(* R * pi / 180 * sqrt(dLat^2 + dLon^2) to within one part in 10^9:        *)
(* a millionth of a degree is 0.111195 m, 1112 tenths of a millimetre.     *)
TenthMillimetresPerStep == 1112
HalfMetreTenthMillimetres == 5000

Position(lat, lon) == [latitude |-> lat, longitude |-> lon]
Positions == {Position(0, 0), Position(0, 2), Position(2, 4), Position(3, 4)}

(* getDistanceInMeters(lat1, lon1, lat2, lon2) < 0.5, on squares, in       *)
(* tenths of a millimetre.                                                 *)
distanceBelowHalfMetre(p, q) ==
    LET dLat == q.latitude - p.latitude
        dLon == q.longitude - p.longitude
    IN TenthMillimetresPerStep * TenthMillimetresPerStep * (dLat * dLat + dLon * dLon)
          < HalfMetreTenthMillimetres * HalfMetreTenthMillimetres

checkSameLocation(p, q) == p.latitude = q.latitude /\ p.longitude = q.longitude

(* The test of sendLocationUpdate as it would be with checkSameLocation    *)
(* alone.                                                                  *)
isDuplicateLocationExact(lastLocation, p) ==
    lastLocation # <<>> /\ checkSameLocation(lastLocation[1], p)

(* The test sendLocationUpdate makes of a position against                 *)
(* lastLocationRef.current (<<>> for null): the update is dropped.         *)
isDuplicateLocation(lastLocation, p) ==
    /\ lastLocation # <<>>
    /\ \/ checkSameLocation(lastLocation[1], p)
       \/ distanceBelowHalfMetre(lastLocation[1], p)

(* What a function created in a render of the hook reads of that render.   *)
HookValues(r) ==
    [deviceId |-> r.deviceId, hasLocationPermission |-> r.hasLocationPermission,
     processing |-> r.processing]

NoPoller == [deviceId |-> "null", hasLocationPermission |-> "null", processing |-> FALSE]

(* The hook after its first render and mount effects: getUniqueId and the  *)
(* permission check are pending, the polling effect found nothing to do.   *)
ReporterMounted(position) ==
    [deviceId |-> "null", hasLocationPermission |-> "null", processing |-> FALSE,
     locationUpdated |-> FALSE,
     rendered |-> NoPoller,
     interval |-> FALSE, poller |-> NoPoller,
     idPc |-> "pending", permissionPc |-> "pending",
     lastLocation |-> <<>>, position |-> position,
     calls |-> <<>>, server |-> <<>>,
     report |-> [op |-> "none", call |-> 0, what |-> "none"]]

LocationInit ==
    /\ ScreenInit /\ st.cachedUsers = <<>>
    /\ matcher = NoMatcher
    /\ store = StoreIdle /\ splash = SplashIdle
    /\ \E position \in Positions : reporter = ReporterMounted(position)

ReporterReport(op, call, what) == [op |-> op, call |-> call, what |-> what]

ReporterSettled == reporter.rendered = HookValues(reporter)

CallsInFlight == {i \in 1..Len(reporter.calls) : reporter.calls[i].pc # "done"}

(* sendLocationUpdate called through the values c of the render that       *)
(* created it, up to its await of getLocation: the reporter after it.      *)
sendLocationUpdateStart(r, c) ==
    IF c.deviceId = "null" \/ c.processing \/ c.hasLocationPermission # "granted"
    THEN [r EXCEPT !.report = ReporterReport("sendLocationUpdate", 0, "returned")]
    ELSE [r EXCEPT !.locationUpdated = FALSE, !.processing = TRUE,
                   !.calls = Append(@, [pc |-> "getLocation", at |-> <<>>]),
                   !.report = ReporterReport("sendLocationUpdate", Len(r.calls) + 1, "started")]

(* DeviceInfo.getUniqueId settles. *)
FetchDeviceId ==
    /\ reporter.idPc = "pending"
    /\ \E id \in {"null", "device-1"} :
          reporter' = [reporter EXCEPT !.idPc = "done", !.deviceId = id,
                          !.report = ReporterReport("fetchDeviceId", 0, id)]
    /\ UNCHANGED <<screenVars, matcher, store, splash>>

(* checkLocationPermission: the permission is held, or it is asked for,    *)
(* or the check throws.                                                    *)
CheckLocationPermission ==
    /\ reporter.permissionPc = "pending"
    /\ \E outcome \in {"granted", "request", "denied"} :
          reporter' = [reporter EXCEPT
                          !.permissionPc = IF outcome = "request" THEN "requesting" ELSE "done",
                          !.hasLocationPermission = IF outcome = "request" THEN @ ELSE outcome,
                          !.report = ReporterReport("checkLocationPermission", 0, outcome)]
    /\ UNCHANGED <<screenVars, matcher, store, splash>>

(* requestLocationPermission settles. *)
RequestLocationPermission ==
    /\ reporter.permissionPc = "requesting"
    /\ \E outcome \in {"granted", "denied"} :
          reporter' = [reporter EXCEPT
                          !.permissionPc = "done", !.hasLocationPermission = outcome,
                          !.report = ReporterReport("requestLocationPermission", 0, outcome)]
    /\ UNCHANGED <<screenVars, matcher, store, splash>>

(* The Grant Location Permission button of the screen shown without the    *)
(* permission.                                                             *)
PressGrantLocation ==
    /\ ReporterSettled
    /\ reporter.rendered.hasLocationPermission # "granted"
    /\ reporter.permissionPc = "done"
    /\ reporter' = [reporter EXCEPT !.permissionPc = "requesting",
                       !.report = ReporterReport("requestLocationPermission", 0, "asked")]
    /\ UNCHANGED <<screenVars, matcher, store, splash>>

(* A render of the hook and its polling effect, which runs when            *)
(* hasLocationPermission or deviceId changed: the old interval is cleared, *)
(* and with both set sendLocationUpdate is called and handed to            *)
(* setInterval, as this render created it.                                 *)
ReporterRender ==
    /\ ~ReporterSettled
    /\ LET c == HookValues(reporter)
           r == [reporter EXCEPT !.rendered = c,
                                 !.report = ReporterReport("render", 0, "none")]
           changed == \/ c.deviceId # reporter.rendered.deviceId
                      \/ c.hasLocationPermission # reporter.rendered.hasLocationPermission
       IN reporter' =
             IF ~changed THEN r
             ELSE IF c.deviceId # "null" /\ c.hasLocationPermission = "granted"
                  THEN [sendLocationUpdateStart(r, c) EXCEPT !.interval = TRUE, !.poller = c]
                  ELSE [r EXCEPT !.interval = FALSE, !.poller = NoPoller]
    /\ UNCHANGED <<screenVars, matcher, store, splash>>

(* The interval elapses: the function handed to setInterval is called.     *)
Poll ==
    /\ reporter.interval
    /\ Len(reporter.calls) < MaxPolls
    /\ reporter' = sendLocationUpdateStart(reporter, reporter.poller)
    /\ UNCHANGED <<screenVars, matcher, store, splash>>

(* The end of a call of sendLocationUpdate: finally, setProcessing(false). *)
EndCall(r, i, what) ==
    [r EXCEPT !.processing = FALSE, !.calls[i].pc = "done",
              !.report = ReporterReport("sendLocationUpdate", i, what)]

(* The end of a call as it would be if a failed POST took back the         *)
(* position it had recorded.                                               *)
EndFailedCallForgetting(r, i) ==
    [EndCall(r, i, "post failed") EXCEPT !.lastLocation = <<>>]

(* The end of a call whose POST failed: catch, then finally.               *)
EndFailedCall(r, i) == EndCall(r, i, "post failed")

(* getLocation resolves with the device's position: a duplicate of the     *)
(* last recorded location ends the call; any other position is recorded    *)
(* and its POST started.                                                   *)
LocationResolved(i) ==
    /\ ReporterSettled
    /\ reporter.calls[i].pc = "getLocation"
    /\ LET p == reporter.position
       IN reporter' =
             IF isDuplicateLocation(reporter.lastLocation, p)
             THEN [EndCall(reporter, i, "suppressed") EXCEPT !.calls[i].at = <<p>>]
             ELSE [reporter EXCEPT !.lastLocation = <<p>>,
                                   !.calls[i] = [pc |-> "fetch", at |-> <<p>>],
                                   !.report = ReporterReport("sendLocationUpdate", i, "posting")]
    /\ UNCHANGED <<screenVars, matcher, store, splash>>

(* getLocation rejects (no fix within the timeout). *)
LocationRejected(i) ==
    /\ ReporterSettled
    /\ reporter.calls[i].pc = "getLocation"
    /\ reporter' = EndCall(reporter, i, "location failed")
    /\ UNCHANGED <<screenVars, matcher, store, splash>>

(* The POST reaches the server and fetch resolves; response.json() gives   *)
(* the reply or throws.                                                    *)
PostDone(i) ==
    /\ ReporterSettled
    /\ reporter.calls[i].pc = "fetch"
    /\ \E parsed \in BOOLEAN :
          reporter' = [EndCall(reporter, i, IF parsed THEN "posted" ELSE "reply unreadable")
                          EXCEPT !.server = Append(@, reporter.calls[i].at[1]),
                                 !.locationUpdated = IF parsed THEN TRUE ELSE @]
    /\ UNCHANGED <<screenVars, matcher, store, splash>>

(* fetch rejects: the request did not reach the server. *)
PostFailed(i) ==
    /\ ReporterSettled
    /\ reporter.calls[i].pc = "fetch"
    /\ reporter' = EndFailedCall(reporter, i)
    /\ UNCHANGED <<screenVars, matcher, store, splash>>

(* The device moves. *)
Move ==
    /\ \E p \in Positions \ {reporter.position} :
          reporter' = [reporter EXCEPT !.position = p,
                          !.report = ReporterReport("move", 0, "none")]
    /\ UNCHANGED <<screenVars, matcher, store, splash>>

LocationNext ==
    \/ FetchDeviceId
    \/ CheckLocationPermission
    \/ RequestLocationPermission
    \/ PressGrantLocation
    \/ ReporterRender
    \/ Poll
    \/ \E i \in 1..Len(reporter.calls) :
           \/ LocationResolved(i)
           \/ LocationRejected(i)
           \/ PostDone(i)
           \/ PostFailed(i)
    \/ Move

LocationSpec == LocationInit /\ [][LocationNext]_vars

(* ---------------------------- the user store ---------------------------- *)
(* The text JSON.stringify makes of an embedding of finite numbers (saveUser *)
(* stringifies Array.from(embedding)): an array literal of an array, an object *)
(* literal with the indices as keys of a typed array.  JSON.parse gives    *)
(* back an array or an object of the same numbers.                         *)
JSONstringify(embedding) ==
    [json |-> IF embedding.shape = "array" THEN "array" ELSE "object",
     numbers |-> embedding.numbers]
JSONparse(text) ==
    Argument(IF text.json = "array" THEN "array" ELSE "object", text.numbers, TRUE)

(* What callers hand to saveUser and deleteUser: a userId that is empty,   *)
(* blank or set; an embedding that is an array, a typed array, an empty    *)
(* array, an array with a NaN, or null.                                    *)
StoreUserIds == {<<>>, <<" ">>, <<"alice">>, <<"bob">>}
StoreArguments ==
    { ArrayOf(Emb(EmbeddingLength, <<>>)), ArrayOf(Emb(EmbeddingLength, <<10>>)),
      Argument("typed", Emb(EmbeddingLength, <<10>>), TRUE),
      ArrayOf(Emb(0, <<>>)),
      Argument("array", Emb(EmbeddingLength, <<10>>), FALSE),
      Argument("none", Emb(0, <<>>), TRUE) }

(* The batches handed to saveMultipleUsers: up to MaxBatch of these users. *)
BatchUsers ==
    { [userId |-> <<"alice">>, embedding |-> ArrayOf(Emb(EmbeddingLength, <<10>>))],
      [userId |-> <<"bob">>, embedding |-> Argument("typed", Emb(EmbeddingLength, <<10>>), TRUE)],
      [userId |-> <<" ">>, embedding |-> ArrayOf(Emb(EmbeddingLength, <<>>))],
      [userId |-> <<"alice">>, embedding |-> Argument("array", Emb(EmbeddingLength, <<>>), FALSE)] }
StoreBatches == SeqsUpTo(BatchUsers, MaxBatch)

(* What the last call on the store did: how it settled and, for getUsers,  *)
(* the users it resolved with.                                             *)
StoreReport(op, users, outcome, returned) ==
    [op |-> op, users |-> users, outcome |-> outcome, returned |-> returned]

(* The Users table after initDB, empty, and no call made yet. *)
StoreInit ==
    /\ ScreenInit /\ st.cachedUsers = <<>>
    /\ matcher = NoMatcher
    /\ reporter = ReporterIdle /\ splash = SplashIdle
    /\ store = [rows |-> <<>>, nextId |-> 1,
                last |-> StoreReport("none", <<>>, "none", <<>>)]

(* INSERT INTO Users as it would be without OR REPLACE and without the     *)
(* UNIQUE constraint on userId.                                            *)
insertAlways(table, userId, text) ==
    [table EXCEPT !.rows = Append(@, [id |-> table.nextId, userId |-> userId, embedding |-> text]),
                  !.nextId = @ + 1]

(* INSERT OR REPLACE INTO Users (userId, embedding, updatedAt): userId is  *)
(* UNIQUE, so a row with the same userId is deleted before the new row is  *)
(* inserted under the next id.                                             *)
insertOrReplace(table, userId, text) ==
    [table EXCEPT !.rows = Append(SelectSeq(@, LAMBDA row : row.userId # userId),
                                  [id |-> table.nextId, userId |-> userId, embedding |-> text]),
                  !.nextId = @ + 1]

(* The forEach of saveMultipleUsers inside its transaction. *)
RECURSIVE insertAll(_, _)
insertAll(table, users) ==
    IF users = <<>> THEN table
    ELSE insertAll(insertOrReplace(table, Head(users).userId, JSONstringify(Head(users).embedding)),
                   Tail(users))

(* The validation of saveMultipleUsers as it would be if each user were    *)
(* validated just before its own insert: the users before the first        *)
(* invalid one.                                                            *)
RECURSIVE validPrefix(_)
validPrefix(users) ==
    IF users = <<>> \/ ~isValidUser(Head(users).userId, Head(users).embedding) THEN <<>>
    ELSE <<Head(users)>> \o validPrefix(Tail(users))

(* The users saveMultipleUsers has inserted when its validation loop       *)
(* throws: none, the loop runs before the database is opened.              *)
savedBeforeThrow(users) == <<>>

(* The rows of SELECT userId, embedding FROM Users, each parsed.  *)
selectUsers(rows) ==
    [k \in 1..Len(rows) |-> [userId |-> rows[k].userId, embedding |-> JSONparse(rows[k].embedding)]]

(* saveUser(userId, embedding): it throws on invalid data; else the        *)
(* transaction commits (the statement inserted a row, or replaced the row  *)
(* of that userId) or fails.                                               *)
SaveUser ==
    /\ store.nextId <= MaxSaves
    /\ \E userId \in StoreUserIds, embedding \in StoreArguments, committed \in BOOLEAN :
          LET user == <<[userId |-> userId, embedding |-> embedding]>>
          IN store' =
                IF ~isValidUser(userId, embedding)
                THEN [store EXCEPT !.last = StoreReport("saveUser", user, "threw", <<>>)]
                ELSE IF ~committed
                THEN [store EXCEPT !.last = StoreReport("saveUser", user, "rejected", <<>>)]
                ELSE [insertOrReplace(store, userId, JSONstringify([embedding EXCEPT !.shape = "array"]))
                         EXCEPT !.last = StoreReport("saveUser", user,
                                            IF \E k \in 1..Len(store.rows) :
                                                  store.rows[k].userId = userId
                                            THEN "replaced" ELSE "inserted", <<>>)]
    /\ UNCHANGED <<screenVars, matcher, reporter, splash>>

(* saveMultipleUsers(users): every user is validated, then all are         *)
(* inserted in one transaction, which commits or is rolled back.           *)
SaveMultipleUsers ==
    /\ store.nextId + MaxBatch - 1 <= MaxSaves
    /\ \E users \in StoreBatches, committed \in BOOLEAN :
          store' =
             IF \E k \in 1..Len(users) : ~isValidUser(users[k].userId, users[k].embedding)
             THEN [insertAll(store, savedBeforeThrow(users))
                      EXCEPT !.last = StoreReport("saveMultipleUsers", users, "threw", <<>>)]
             ELSE IF ~committed
             THEN [store EXCEPT !.last = StoreReport("saveMultipleUsers", users, "rejected", <<>>)]
             ELSE [insertAll(store, users)
                      EXCEPT !.last = StoreReport("saveMultipleUsers", users, "resolved", <<>>)]
    /\ UNCHANGED <<screenVars, matcher, reporter, splash>>

(* deleteUser(userId): DELETE FROM Users WHERE userId = ?. *)
DeleteUser ==
    /\ \E userId \in StoreUserIds, committed \in BOOLEAN :
          LET user == <<[userId |-> userId, embedding |-> Argument("none", Emb(0, <<>>), TRUE)]>>
          IN store' =
                IF ~committed
                THEN [store EXCEPT !.last = StoreReport("deleteUser", user, "rejected", <<>>)]
                ELSE [store EXCEPT !.rows = SelectSeq(@, LAMBDA row : row.userId # userId),
                                   !.last = StoreReport("deleteUser", user, "resolved", <<>>)]
    /\ UNCHANGED <<screenVars, matcher, reporter, splash>>

(* getUsers(): the rows of the table, or a failed transaction. *)
GetUsers ==
    /\ \E committed \in BOOLEAN :
          store' = [store EXCEPT !.last =
                       IF committed
                       THEN StoreReport("getUsers", <<>>, "resolved", selectUsers(store.rows))
                       ELSE StoreReport("getUsers", <<>>, "rejected", <<>>)]
    /\ UNCHANGED <<screenVars, matcher, reporter, splash>>

StoreNext ==
    \/ SaveUser
    \/ SaveMultipleUsers
    \/ DeleteUser
    \/ GetUsers

StoreSpec == StoreInit /\ [][StoreNext]_vars

(* --------------------------- the splash screen -------------------------- *)
(* What happened last on the splash screen. *)
SplashReport(op, call, what) == [op |-> op, call |-> call, what |-> what]

(* A call of sendDeviceId through the closure of the effect that created   *)
(* it (publicKey as that render had it), up to its await of getUniqueId.   *)
sendDeviceIdStart(s, publicKey) ==
    [s EXCEPT !.checks = Append(@, [pc |-> "getUniqueId", publicKey |-> publicKey]),
              !.report = SplashReport("sendDeviceId", Len(s.checks) + 1, "started")]

(* The splash screen after its first render and mount effects: the public  *)
(* key is being fetched, the interval is set and sendDeviceId has been     *)
(* called once, with no public key yet.                                    *)
SplashMounted ==
    sendDeviceIdStart(
        [publicKey |-> "null", keyPc |-> "fetch", mounted |-> TRUE,
         interval |-> TRUE, effectKey |-> "null",
         checks |-> <<>>, encodedDeviceId |-> FALSE, deviceIdDisplay |-> FALSE,
         registerPc |-> "idle",
         navigations |-> 0, report |-> SplashReport("none", 0, "none")],
        "null")

SplashInit ==
    /\ ScreenInit /\ st.cachedUsers = <<>>
    /\ matcher = NoMatcher
    /\ reporter = ReporterIdle /\ store = StoreIdle
    /\ splash = SplashMounted

(* if (intervalRef.current) clearInterval(intervalRef.current);            *)
(* navigation.replace('Verify'): the splash screen is unmounted, and the   *)
(* cleanup of its effect clears the interval again.                        *)
replaceVerify(s) ==
    [s EXCEPT !.interval = FALSE, !.mounted = FALSE, !.navigations = @ + 1]

(* fetchPublicKey settles; with a key the screen renders again and the     *)
(* effect, which depends on publicKey, is run again: the interval is       *)
(* cleared, set anew, and sendDeviceId of this render is called.           *)
PublicKeyFetched ==
    /\ splash.keyPc = "fetch"
    /\ splash.mounted
    /\ \E fetched \in BOOLEAN :
          splash' =
             IF fetched
             THEN [sendDeviceIdStart(splash, "key") EXCEPT
                      !.keyPc = "done", !.publicKey = "key", !.effectKey = "key"]
             ELSE [splash EXCEPT !.keyPc = "done",
                                 !.report = SplashReport("fetchPublicKey", 0, "failed")]
    /\ UNCHANGED <<screenVars, matcher, reporter, store>>

(* The interval elapses: sendDeviceId of the effect that set it is called, *)
(* whatever earlier calls are doing.                                       *)
PollRegistration ==
    /\ splash.interval
    /\ Len(splash.checks) < MaxChecks
    /\ splash' = sendDeviceIdStart(splash, splash.effectKey)
    /\ UNCHANGED <<screenVars, matcher, reporter, store>>

(* getUniqueId resolves: without a public key the call returns; with one   *)
(* the id is encrypted and the registration check sent, or encrypt throws. *)
CheckDeviceId(i) ==
    /\ splash.checks[i].pc = "getUniqueId"
    /\ \E encrypted \in BOOLEAN :
          splash' =
             IF splash.checks[i].publicKey = "null"
             THEN [splash EXCEPT !.checks[i].pc = "done",
                                 !.report = SplashReport("sendDeviceId", i, "no public key")]
             ELSE IF encrypted
             THEN [splash EXCEPT !.checks[i].pc = "fetch", !.encodedDeviceId = TRUE,
                                 !.report = SplashReport("sendDeviceId", i, "checking")]
             ELSE [splash EXCEPT !.checks[i].pc = "done", !.deviceIdDisplay = TRUE,
                                 !.report = SplashReport("sendDeviceId", i, "failed")]
    /\ UNCHANGED <<screenVars, matcher, reporter, store>>

(* The registration check settles: REGISTERED with a bus number goes on to *)
(* AsyncStorage.setItem; any other reply, or a failed request, shows the   *)
(* device id and the bus list.                                             *)
CheckReplied(i) ==
    /\ splash.checks[i].pc = "fetch"
    /\ \E reply \in {"REGISTERED", "NOT_REGISTERED", "failed"} :
          splash' =
             IF reply = "REGISTERED"
             THEN [splash EXCEPT !.checks[i].pc = "setItem",
                                 !.report = SplashReport("sendDeviceId", i, reply)]
             ELSE [splash EXCEPT !.checks[i].pc = "done", !.deviceIdDisplay = TRUE,
                                 !.report = SplashReport("sendDeviceId", i, reply)]
    /\ UNCHANGED <<screenVars, matcher, reporter, store>>

(* AsyncStorage.setItem('busNumber', ...) settles: the interval is cleared *)
(* and navigation.replace('Verify') called, or the storage error is shown. *)
CheckStored(i) ==
    /\ splash.checks[i].pc = "setItem"
    /\ \E stored \in BOOLEAN :
          splash' =
             IF stored
             THEN [replaceVerify(splash) EXCEPT
                      !.checks[i].pc = "done",
                      !.report = SplashReport("sendDeviceId", i, "navigated")]
             ELSE [splash EXCEPT !.checks[i].pc = "done",
                                 !.report = SplashReport("sendDeviceId", i, "not stored")]
    /\ UNCHANGED <<screenVars, matcher, reporter, store>>

(* A bus of the list (shown with the device id) is pressed:                *)
(* registerDevice(busId), which returns at once without an encoded device  *)
(* id.                                                                     *)
PressBus ==
    /\ splash.mounted
    /\ splash.deviceIdDisplay
    /\ splash.registerPc = "idle"
    /\ splash' =
          IF splash.encodedDeviceId
          THEN [splash EXCEPT !.registerPc = "fetch",
                              !.report = SplashReport("registerDevice", 0, "registering")]
          ELSE [splash EXCEPT !.report = SplashReport("registerDevice", 0, "no device id")]
    /\ UNCHANGED <<screenVars, matcher, reporter, store>>

(* The register_device request settles: on 'Device registered              *)
(* successfully' the interval is cleared and the screen replaced.          *)
RegisterReplied ==
    /\ splash.registerPc = "fetch"
    /\ \E registered \in BOOLEAN :
          splash' =
             IF registered
             THEN [replaceVerify(splash) EXCEPT
                      !.registerPc = "done",
                      !.report = SplashReport("registerDevice", 0, "navigated")]
             ELSE [splash EXCEPT !.registerPc = "idle",
                                 !.report = SplashReport("registerDevice", 0, "failed")]
    /\ UNCHANGED <<screenVars, matcher, reporter, store>>

SplashNext ==
    \/ PublicKeyFetched
    \/ PollRegistration
    \/ \E i \in 1..Len(splash.checks) :
           \/ CheckDeviceId(i)
           \/ CheckReplied(i)
           \/ CheckStored(i)
    \/ PressBus
    \/ RegisterReplied

SplashSpec == SplashInit /\ [][SplashNext]_vars

(* ------------------------------- claims -------------------------------- *)
(* connectionState of the gate link, read off the hook state s. *)
IsDisconnected(s) == ~s.isConnected /\ ~s.isAuthenticated /\ s.device = "null"
IsConnectedUnauthenticated(s) == s.isConnected /\ ~s.isAuthenticated
IsAuthenticated(s) == s.isConnected /\ s.isAuthenticated

(* This step wrote the line of the given command on the transport. *)
Wrote(command) ==
    /\ Len(wire') = Len(wire) + 1
    /\ wire'[Len(wire')] = Line(command)

(* C1: at most one run of captureAndVerify is in flight at any time: a     *)
(* second run never passes the guard while an earlier one has not ended.   *)
C1_AtMostOneRunInFlight == Cardinality({i \in 1..MaxRuns : InFlight(i)}) <= 1

(* C2: a send of a command that does not start with the authenticate verb, *)
(* made while the connection state is not Authenticated, writes nothing    *)
(* and reports "not authenticated".                                        *)
C2_UnauthenticatedSendRejected ==
    [][(/\ out'.op = "sendCommand"
        /\ ~startsWith(out'.command, "AUTHENTICATE")
        /\ ~IsAuthenticated(st))
       => (wire' = wire /\ out'.report = "not authenticated")]_vars

(* C3: the line FACE_DETECTED is written only when the connection state is *)
(* Authenticated at the time of the write: the state a run captured when   *)
(* it started never lets the write through after authentication was lost.  *)
C3_FaceDetectedOnlyWhileAuthenticated ==
    [][Wrote(FaceDetectedCommand) => IsAuthenticated(st)]_vars

(* C4: two firings of the automatic trigger are at least CooldownMs apart: *)
(* the firings still queued, and the last one applied to lastCaptureTime.  *)
FiringTimes ==
    {jsQueue[k].t : k \in {j \in 1..Len(jsQueue) : jsQueue[j].fn = "setLastCaptureTime"}}
C4_FiringsCooldownApart ==
    /\ \A j, k \in 1..Len(jsQueue) :
          (j < k /\ jsQueue[j].fn = "setLastCaptureTime" /\ jsQueue[k].fn = "setLastCaptureTime")
             => jsQueue[k].t - jsQueue[j].t >= CooldownMs
    /\ \A t \in FiringTimes :
          st.lastCaptureTime # 0 => t - st.lastCaptureTime >= CooldownMs

(* C5: every run of captureAndVerify that set the busy flag ends, and the  *)
(* step that ends it clears the flag, whatever path the run took; the flag *)
(* never stays set forever.                                                *)
C5_BusyFlagEventuallyCleared ==
    /\ \A i \in 1..MaxRuns : InFlight(i) ~> (runs[i].pc = "done")
    /\ st.isScanning ~> ~st.isScanning
    /\ [][\A i \in 1..MaxRuns : (InFlight(i) /\ ~InFlight(i)') => ~st'.isScanning]_vars
(* A run that failed while logging its match has ended with the flag clear. *)
C5_FailedRunClearedFlag ==
    /\ runs[1].pc = "done"
    /\ ~st.isScanning
    /\ out.op = "captureAndVerify"
    /\ out.report = "error during verification"

(* C6: a transport error (a failed write included) or an explicit          *)
(* disconnect leaves the connection state Disconnected with the device     *)
(* handle released.                                                        *)
C6_TransportErrorDisconnects ==
    [][(\/ out'.report = "write error"
        \/ (out'.op = "connectToESP32" /\ out'.report = "false" /\ linkUp')
        \/ (linkUp /\ ~linkUp'))
       => IsDisconnected(st')]_vars

(* C7: when connectToESP32 reports failure, the connection state is        *)
(* Disconnected and not Authenticated.                                     *)
C7_FailedConnectLeavesDisconnected ==
    [][(out'.op = "connectToESP32" /\ out'.report = "false")
       => (~st'.isConnected /\ ~st'.isAuthenticated)]_vars

(* C8: while ConnectedUnauthenticated, AUTH_SUCCESS moves the state to     *)
(* Authenticated and AUTH_FAILED leaves it ConnectedUnauthenticated; in    *)
(* that state a send of FACE_DETECTED is rejected with no write, and a     *)
(* send of the authenticate command is written.                            *)
C8_AuthenticationReplies ==
    [][IsConnectedUnauthenticated(st) =>
         /\ (out'.op = "onDataReceived" /\ out'.command = <<"AUTH_SUCCESS">>)
               => IsAuthenticated(st')
         /\ (out'.op = "onDataReceived" /\ out'.command = <<"AUTH_FAILED">>)
               => IsConnectedUnauthenticated(st')
         /\ ~Wrote(FaceDetectedCommand)
         /\ (out'.op = "sendCommand" /\ startsWith(out'.command, "AUTHENTICATE")
               /\ out'.report = "sent")
               => (Wrote(out'.command) /\ IsConnectedUnauthenticated(st'))]_vars

(* C9: the first line written on every connection is the authenticate line *)
(* with the configured secret; no other command precedes it.               *)
C9_FirstLineAuthenticates == wire # <<>> => wire[1] = Line(AuthenticateCommand)

(* The squared Euclidean distance of embeddings a and b of one length, in  *)
(* hundredths: the components past the leading ones are all 0.             *)
RECURSIVE SquaredDistance(_, _, _)
SquaredDistance(a, b, k) ==
    IF k > Len(a.head) /\ k > Len(b.head) THEN 0
    ELSE (At(a, k) - At(b, k)) * (At(a, k) - At(b, k)) + SquaredDistance(a, b, k + 1)

(* The matcher was run on a 128-length probe and a population of 128-length *)
(* embeddings that is not empty.                                            *)
MatchedValidPopulation ==
    /\ matcher.verdict # NoVerdict
    /\ matcher.newEmbedding.len = EmbeddingLength
    /\ matcher.users # <<>>
    /\ \A k \in 1..Len(matcher.users) : matcher.users[k].embedding.len = EmbeddingLength

DistanceTo(k) == SquaredDistance(matcher.newEmbedding, matcher.users[k].embedding, 1)

(* C10: for a 128-length probe and a non-empty population, verifyFace      *)
(* selects the user at the globally minimal Euclidean distance, and among  *)
(* users at that distance the earliest in population order.                *)
C10_ClosestEarliestSelected ==
    MatchedValidPopulation =>
        \E k \in 1..Len(matcher.users) :
            /\ matcher.verdict.userId = matcher.users[k].userId
            /\ matcher.verdict.sq = DistanceTo(k)
            /\ \A j \in 1..Len(matcher.users) : DistanceTo(k) <= DistanceTo(j)
            /\ \A j \in 1..(k - 1) : DistanceTo(j) > DistanceTo(k)
(* The second and third users are tied below the first: the second is selected. *)
C10_TieTakesEarliest ==
    /\ MatchedValidPopulation
    /\ Len(matcher.users) = 3
    /\ DistanceTo(2) = DistanceTo(3)
    /\ DistanceTo(1) > DistanceTo(2)
    /\ matcher.users[2].embedding # matcher.users[3].embedding
    /\ matcher.verdict.userId = matcher.users[2].userId

(* The position of the user closest to the probe, the earliest of them.    *)
ClosestIndex ==
    CHOOSE k \in 1..Len(matcher.users) :
        /\ \A j \in 1..Len(matcher.users) : DistanceTo(k) <= DistanceTo(j)
        /\ \A j \in 1..(k - 1) : DistanceTo(j) > DistanceTo(k)

(* The tokens appear in the message, one after the other. *)
Mentions(message, tokens) ==
    \E at \in 1..Len(message) :
        /\ at + Len(tokens) - 1 <= Len(message)
        /\ SubSeq(message, at, at + Len(tokens) - 1) = tokens

(* verifyFace has returned for a 128-length probe and a non-empty          *)
(* population of 128-length embeddings.                                    *)
ReturnedValidPopulation == MatchedValidPopulation /\ matcher.result # NoResult

(* C11: verifyFace returns verified with the closest user and its distance *)
(* exactly when the minimal distance is below 0.6; at 0.6 or more it       *)
(* returns unverified with a message naming the closest user's id and the  *)
(* distance with two decimals.                                             *)
C11_ThresholdDecides ==
    ReturnedValidPopulation =>
        IF DistanceTo(ClosestIndex) * 100 < 60 * 60
        THEN /\ matcher.result.verified
             /\ matcher.result.userId = matcher.users[ClosestIndex].userId
             /\ matcher.result.sq = DistanceTo(ClosestIndex)
        ELSE /\ ~matcher.result.verified
             /\ Mentions(matcher.result.message, <<matcher.users[ClosestIndex].userId>>)
             /\ Mentions(matcher.result.message, toFixed2(DistanceTo(ClosestIndex)))

(* C12: a probe that is identical to an embedding of the population always *)
(* verifies, as a user with that embedding and with distance 0, whatever   *)
(* the event sink does.                                                    *)
C12_SelfMatchVerifies ==
    (/\ ReturnedValidPopulation
     /\ \E k \in 1..Len(matcher.users) : matcher.users[k].embedding = matcher.newEmbedding)
    => /\ matcher.result.verified
       /\ matcher.result.sq = 0
       /\ \E k \in 1..Len(matcher.users) :
             /\ matcher.users[k].userId = matcher.result.userId
             /\ matcher.users[k].embedding = matcher.newEmbedding

(* C13: a call of verifyFace leaves the verification-event sink unchanged,  *)
(* for every probe and population.                                          *)
C13_MatcherLeavesSink == [][matcher' # matcher => sink' = sink]_vars

(* C14: two calls of verifyFace on the same probe and population return    *)
(* the same result, whatever the event sink does.                          *)
C14_SameInputsSameResult ==
    (matcher.previous # NoResult /\ matcher.result # NoResult)
        => matcher.result = matcher.previous

(* C15: for a probe whose length is not 128, verifyFace returns (it does   *)
(* not throw) unverified with the invalid-length message, whatever the     *)
(* population.                                                             *)
C15_InvalidLengthRejected ==
    (matcher.verdict # NoVerdict /\ matcher.newEmbedding.len # EmbeddingLength)
        => /\ matcher.result # NoResult
           /\ ~matcher.result.verified
           /\ matcher.result.message
                 = <<"Invalid embedding length: ", ToString(matcher.newEmbedding.len)>>
(* A probe of 127 components was rejected against a population of two. *)
C15_ShortProbeRejected ==
    /\ matcher.newEmbedding.len = EmbeddingLength - 1
    /\ Len(matcher.users) = 2
    /\ matcher.result # NoResult
    /\ ~matcher.result.verified

(* This step ends run i, or takes it from pc to its next await. *)
Leaves(i, pc) == runs[i].pc = pc /\ runs'[i].pc # pc

(* C16: with an empty population and a 128-length probe verifyFace returns *)
(* unverified with "No users registered"; the run that called it ends with *)
(* nothing written to the event sink and nothing sent to the gate.         *)
C16_EmptyPopulationRejected ==
    [][/\ \A e \in ModelEmbeddings :
             e.len = EmbeddingLength
                => verifyFaceResult(e, verifyFaceDecision(e, <<>>), TRUE)
                      = Unverified(<<"No users registered">>)
       /\ \A i \in 1..MaxRuns :
             (/\ Leaves(i, "readFile")
              /\ runs[i].clo.cachedUsers = <<>>
              /\ out'.metric
              /\ out'.report # "invalid_length")
             => /\ out' = RunMeasured("no_users")
                /\ runs'[i].pc = "done"
                /\ sink' = sink
                /\ wire' = wire]_vars
(* A run with no users ended unverified while the gate link was authenticated. *)
C16_NoUsersWhileAuthenticated ==
    /\ out = RunMeasured("no_users")
    /\ runs[1].pc = "done"
    /\ IsAuthenticated(st) /\ linkUp
    /\ wire = <<Line(AuthenticateCommand)>>
    /\ sink = <<>>

(* The users of a population whose embedding has 128 components. *)
ValidUsers(users) == SelectSeq(users, LAMBDA u : u.embedding.len = EmbeddingLength)

(* C17: stored records whose embedding is not of 128 components are left   *)
(* out of the matching population: for a valid probe verifyFace decides as *)
(* it does on the valid records alone, and never selects such a record.    *)
C17_InvalidRecordsExcluded ==
    (matcher.verdict # NoVerdict /\ matcher.newEmbedding.len = EmbeddingLength)
        => /\ matcher.verdict = verifyFaceDecision(matcher.newEmbedding, ValidUsers(matcher.users))
           /\ \A k \in 1..Len(matcher.users) :
                 matcher.users[k].userId = matcher.verdict.userId
                    => matcher.users[k].embedding.len = EmbeddingLength

(* C18: a verified run writes the event for the matched user and sends     *)
(* FACE_DETECTED if and only if the gate link is Authenticated; the run    *)
(* ends reported as verified whether or not the send succeeds; a run that  *)
(* ends unverified writes no event and sends nothing.                      *)
C18_VerifiedSideEffects ==
    [][\A i \in 1..MaxRuns :
          /\ (Leaves(i, "logVerification") /\ sink' # sink)
                => /\ sink' = Append(sink, runs[i].match)
                   /\ (out'.op = "sendCommand" /\ out'.command = FaceDetectedCommand)
                         <=> IsAuthenticated(st)
          /\ Leaves(i, "sendCommand")
                => (out' = RunMeasured("verified") /\ sink' = sink /\ runs'[i].pc = "done")
          /\ (InFlight(i) /\ runs'[i].pc = "done" /\ out'.report # "verified")
                => (sink' = sink /\ wire' = wire)]_vars

(* C19: every run of captureAndVerify adds a duration entry to the         *)
(* performance metrics when it ends, whatever its outcome.                 *)
C19_EveryRunMeasured ==
    [][\A i \in 1..MaxRuns : (InFlight(i) /\ runs'[i].pc = "done") => out'.metric]_vars

(* C20: a run whose capture, resize, decoding or inference fails ends      *)
(* there, unverified with an error reported: no event is written, nothing  *)
(* is sent to the gate, no further run is started or queued, and the busy  *)
(* flag is clear.                                                          *)
C20_CollaboratorFailureAborts ==
    [][\A i \in 1..MaxRuns :
          (/\ runs[i].pc \in {"takePhoto", "readFile"}
           /\ runs'[i].pc = "done"
           /\ ~out'.metric)
          => /\ out' = RunReport("error")
             /\ sink' = sink
             /\ wire' = wire
             /\ jsQueue' = jsQueue
             /\ \A j \in 1..MaxRuns : j # i => runs'[j] = runs[j]
             /\ ~st'.isScanning]_vars
(* A capture failed while the gate link was authenticated. *)
C20_CaptureFailedWhileAuthenticated ==
    /\ out = RunReport("error")
    /\ runs[1].pc = "done"
    /\ IsAuthenticated(st) /\ linkUp
    /\ wire = <<Line(AuthenticateCommand)>>
    /\ sink = <<>>
    /\ ~st.isScanning

(* This step is a frame that got past the early return and the model.      *)
ProcessedFrame == out'.op = "frameProcessor" /\ out'.report \notin {"skipped", "error"}

(* A detection, in tenths of a pixel, is centred (its centre less than 0.2 *)
(* of the frame width from the frame centre on both axes), sized (width    *)
(* and height from 0.3 to 0.7 of the frame width, limits included) and     *)
(* confident (score above 0.7).                                            *)
Eligible(det) ==
    /\ 10 * Abs(2 * det.x + det.width - 10 * FrameWidth) < 2 * 2 * 10 * FrameWidth
    /\ 10 * Abs(2 * det.y + det.height - 10 * FrameHeight) < 2 * 2 * 10 * FrameWidth
    /\ 10 * det.width >= 3 * 10 * FrameWidth /\ 10 * det.width <= 7 * 10 * FrameWidth
    /\ 10 * det.height >= 3 * 10 * FrameWidth /\ 10 * det.height <= 7 * 10 * FrameWidth
    /\ det.score > 7

(* C21: the trigger fires for a processed frame if and only if the list of *)
(* detections is not empty, now - lastCaptureTimestamp is at least 3000 ms *)
(* and some detection is at once centred (within 0.2 x frameWidth of the   *)
(* frame centre on both axes, the distance itself excluded), sized (width  *)
(* and height within [0.3, 0.7] x frameWidth) and confident (score > 0.7); *)
(* in every other case nothing is dispatched.                              *)
C21_TriggerFiresIff ==
    [][ProcessedFrame =>
          LET detections == out'.published[1]
          IN (jsQueue' # jsQueue)
                <=> /\ Len(detections) > 0
                    /\ now - worklet.lastCaptureTime >= CooldownMs
                    /\ \E k \in 1..Len(detections) : Eligible(detections[k])]_vars
(* The trigger fired exactly 3000 ms after the last capture on a face of   *)
(* the smallest width, listed after a face whose centre is 0.2 x           *)
(* frameWidth off.                                                         *)
C21_FiredAtTheLimits ==
    /\ out.op = "frameProcessor" /\ out.report = "fire"
    /\ out.frame[1].faces = <<RawFace(2, 5, 8, 9, 9), RawFace(2, 3, 8, 6, 9)>>
    /\ now - worklet.lastCaptureTime = CooldownMs
    /\ Len(jsQueue) = 2

(* C22: a frame that arrives while a verification is in flight (the busy   *)
(* flag is set) is skipped: no detection is run, no detections are         *)
(* published, lastCaptureTimestamp is not updated and no verification is   *)
(* dispatched.                                                             *)
C22_InFlightFrameSkipped ==
    [][(out'.op = "frameProcessor" /\ st.isScanning)
       => /\ out'.report = "skipped"
          /\ out'.published = <<>>
          /\ ~out'.metric
          /\ jsQueue' = jsQueue
          /\ st' = st]_vars

(* The detections of the model's faces under the loose threshold: the      *)
(* faces with a score above 0.5, in the order of the model, in tenths of a *)
(* pixel.                                                                  *)
LooseDetections(faces) ==
    LET kept == SelectSeq(faces, LAMBDA f : f.score > 5)
    IN [k \in 1..Len(kept) |->
          [x |-> kept[k].box[2] * FrameWidth, y |-> kept[k].box[1] * FrameHeight,
           width |-> (kept[k].box[4] - kept[k].box[2]) * FrameWidth,
           height |-> (kept[k].box[3] - kept[k].box[1]) * FrameHeight,
           score |-> kept[k].score]]

(* C23: every processed frame publishes the detections computed with the   *)
(* loose 0.5 threshold, whatever the trigger decides: on an empty list, in *)
(* the cooldown, with no eligible detection, and when the trigger fires.   *)
C23_DetectionsAlwaysPublished ==
    [][ProcessedFrame =>
          /\ out'.report \in {"no face", "cooldown", "no valid face", "fire"}
          /\ out'.published = <<LooseDetections(out'.frame[1].faces)>>]_vars
(* In the cooldown, a frame with a face below and a face above the loose   *)
(* threshold published the one above.                                      *)
C23_PublishedInCooldown ==
    /\ out.op = "frameProcessor" /\ out.report = "cooldown"
    /\ out.frame[1].faces = <<FaintFace, WeakFace>>
    /\ Len(out.published[1]) = 1
    /\ out.published[1][1].score = 6
    /\ jsQueue = <<>>

(* This step runs a call of captureAndVerify that a frame queued. *)
RunsDispatchedCall ==
    /\ jsQueue # <<>>
    /\ Head(jsQueue).fn = "captureAndVerify"
    /\ jsQueue' = Tail(jsQueue)

(* C24: a frame on which the trigger fires queues the update of            *)
(* lastCaptureTimestamp to now and then exactly one call of the            *)
(* verification pipeline, and a frame on which it does not fire queues     *)
(* nothing; lastCaptureTimestamp is updated only with the dispatched call  *)
(* next in line, and when a dispatched call runs the timestamp has been    *)
(* set to the time of its firing.                                          *)
C24_TimestampThenDispatch ==
    [][/\ (out'.op = "frameProcessor" /\ out'.report = "fire")
             => jsQueue' = jsQueue \o
                   << [fn |-> "setLastCaptureTime", t |-> now, clo |-> NoClosure],
                      [fn |-> "captureAndVerify", t |-> now, clo |-> worklet.cav] >>
       /\ (out'.op = "frameProcessor" /\ out'.report # "fire") => jsQueue' = jsQueue
       /\ st'.lastCaptureTime # st.lastCaptureTime
             => /\ jsQueue' # <<>>
                /\ jsQueue'[1].fn = "captureAndVerify"
                /\ jsQueue'[1].t = st'.lastCaptureTime
       /\ RunsDispatchedCall => st.lastCaptureTime = Head(jsQueue).t]_vars
(* A dispatched call started a run after the timestamp was set to the time *)
(* of the firing.                                                          *)
C24_DispatchedRunStarted ==
    /\ out = RunReport("started")
    /\ runs[1].pc = "takePhoto"
    /\ st.lastCaptureTime = now
    /\ jsQueue = <<>>

(* This step wrote an authenticate line on the transport. *)
AuthenticateWritten ==
    /\ wire' # wire
    /\ wire' # <<>>
    /\ startsWith(wire'[Len(wire')], "AUTHENTICATE")

(* C25: the gate link never retries on its own.  The step in which         *)
(* connectToESP32 reports a failure starts no further attempt; a received  *)
(* line (AUTH_FAILED included) writes nothing and starts no attempt; an    *)
(* authenticate line is written only by a connect attempt that opened the  *)
(* connection or by a sendCommand of the caller; and an attempt starts     *)
(* only from a button of the rendered screen (Connect while not connected, *)
(* Retry Bluetooth Permissions while permissions are missing).             *)
C25_NoAutomaticRetry ==
    [][/\ (out'.op = "connectToESP32" /\ out'.report \in {"false", "undefined"})
             => connPc' = "idle"
       /\ out'.op = "onDataReceived" => (wire' = wire /\ connPc' = connPc)
       /\ AuthenticateWritten
             => \/ (out'.op = "connectToESP32" /\ connPc = "connecting")
                \/ (out'.op = "sendCommand" /\ out'.report = "sent"
                      /\ startsWith(out'.command, "AUTHENTICATE"))
       /\ (connPc = "idle" /\ connPc' # "idle")
             => /\ Settled
                /\ out' = NoOut
                /\ ~rendered.isConnected \/ ~rendered.hasPermissions]_vars
(* The paired device was found, opening the connection failed and no       *)
(* attempt is under way.                                                   *)
C25_FailedAttemptLeftIdle ==
    /\ out = ConnectReturn("false")
    /\ connPc = "idle"
    /\ st.device = ESP32_DEVICE_NAME
    /\ ~st.isConnected
    /\ wire = <<>>

RecognizedLines == {<<"AUTH_SUCCESS">>, <<"AUTH_FAILED">>, <<"NOT_AUTHENTICATED">>}

(* C26: a received line that, trimmed, is none of AUTH_SUCCESS,            *)
(* AUTH_FAILED and NOT_AUTHENTICATED is surfaced as it is and otherwise    *)
(* ignored: the connected and authenticated flags and the device handle    *)
(* stay as they are and nothing is written on the transport.               *)
C26_UnrecognizedLineIgnored ==
    [][(out'.op = "onDataReceived" /\ out'.command \notin RecognizedLines)
       => /\ out'.command # <<>> /\ out'.report = "none"
          /\ st'.isConnected = st.isConnected
          /\ st'.isAuthenticated = st.isAuthenticated
          /\ st'.device = st.device
          /\ wire' = wire
          /\ linkUp' = linkUp]_vars
(* An unrecognized line arrived on an authenticated connection. *)
C26_UnrecognizedWhileAuthenticated ==
    /\ out.op = "onDataReceived"
    /\ out.command = <<"GATE_OPENED">>
    /\ IsAuthenticated(st) /\ linkUp
    /\ st.device = ESP32_DEVICE_NAME

(* C27: whenever the gate link is Disconnected (not connected, no connect  *)
(* attempt under way) it holds no device handle; in particular an attempt  *)
(* that failed while opening the transport has left none.                  *)
C27_DisconnectedHoldsNoHandle ==
    (~st.isConnected /\ connPc = "idle") => st.device = "null"

(* C28: a frame on which the detection model returns an invalid output (a  *)
(* step of the processing throws) ends in the catch block: the error is    *)
(* reported to the UI, nothing is published or dispatched,                 *)
(* lastCaptureTimestamp and everything else the frame processor reads stay *)
(* as they are, so the next frame is processed as if the failed one had    *)
(* not been.                                                               *)
C28_FrameErrorReported ==
    [][(out'.op = "frameProcessor" /\ ~worklet.cav.isScanning /\ ~out'.frame[1].valid)
       => /\ out'.report = "error"
          /\ out'.published = <<>>
          /\ jsQueue' = jsQueue
          /\ st' = st /\ rendered' = rendered /\ worklet' = worklet
          /\ runs' = runs /\ now' = now]_vars
(* A frame failed at a time when a good face would have fired the trigger. *)
C28_FrameFailedOutsideCooldown ==
    /\ out.op = "frameProcessor" /\ out.report = "error"
    /\ out.frame = <<[valid |-> FALSE, faces |-> <<>>]>>
    /\ now - worklet.lastCaptureTime >= CooldownMs
    /\ ~st.isScanning
    /\ jsQueue = <<>>

(* The embeddings the matcher was called on: the probe and the users'.     *)
MatchedEmbeddings ==
    {matcher.newEmbedding} \cup {matcher.users[k].embedding : k \in 1..Len(matcher.users)}

(* C29: between the probe and every vector of its length (a user's, or    *)
(* the probe itself) the distance is defined and not negative (its square, *)
(* which the model keeps, is not negative), is exactly 0 when the two are  *)
(* equal, and is the same in both directions.                              *)
C29_DistanceLaws ==
    matcher.verdict # NoVerdict =>
        LET a == matcher.newEmbedding
        IN \A b \in MatchedEmbeddings :
            a.len = b.len =>
                LET ab == calculateEuclideanDistance(a, b)
                    ba == calculateEuclideanDistance(b, a)
                IN /\ ~ab.threw
                   /\ ab.sq >= 0
                   /\ a = b => ab.sq = 0
                   /\ ab.sq = ba.sq
(* The matcher ran on a probe at distance 0.5 from one user and equal to   *)
(* another.                                                                *)
C29_DistancesTaken ==
    /\ matcher.verdict # NoVerdict
    /\ matcher.newEmbedding = Emb(EmbeddingLength, <<3, 4>>)
    /\ Len(matcher.users) = 2
    /\ matcher.users[1].embedding = Emb(EmbeddingLength, <<>>)
    /\ matcher.users[2].embedding = matcher.newEmbedding
    /\ matcher.verdict.sq = 0

C31_AuthFailedDemotes ==
    /\ [][(/\ out'.op = "onDataReceived"
           /\ out'.command = <<"AUTH_FAILED">>
           /\ IsAuthenticated(st))
          => (/\ IsConnectedUnauthenticated(st')
              /\ st'.device = st.device /\ st'.device # "null"
              /\ linkUp')]_vars
    /\ [][(/\ out'.op = "sendCommand"
           /\ ~startsWith(out'.command, "AUTHENTICATE")
           /\ IsConnectedUnauthenticated(st))
          => (wire' = wire /\ out'.report \in {"not authenticated", "not connected"})]_vars

(* C32: NOT_AUTHENTICATED received from the controller raises an alert and *)
(* changes nothing else: the hook state (connected, authenticated, device  *)
(* handle), the open connection and the transport are as before, whatever  *)
(* the connection state was; an Authenticated link stays Authenticated.    *)
C32_NotAuthenticatedOnlyAlerts ==
    [][(out'.op = "onDataReceived" /\ out'.command = <<"NOT_AUTHENTICATED">>)
       => /\ out'.report = "Error"
          /\ st' = st
          /\ linkUp' = linkUp /\ wire' = wire
          /\ runs' = runs /\ jsQueue' = jsQueue /\ sink' = sink
          /\ connPc' = connPc /\ discPc' = discPc]_vars
(* The controller answered NOT_AUTHENTICATED after FACE_DETECTED had been  *)
(* written, and the link is still Authenticated with a run under way.      *)
C32_RejectedYetAuthenticated ==
    /\ out.op = "onDataReceived" /\ out.command = <<"NOT_AUTHENTICATED">>
    /\ IsAuthenticated(st) /\ linkUp
    /\ wire = <<Line(AuthenticateCommand), Line(FaceDetectedCommand)>>
    /\ \E i \in 1..MaxRuns : InFlight(i) /\ runs[i].clo.isAuthenticated

(* C33: a send made while the gate link is Disconnected (not connected, or *)
(* no device handle) writes nothing and reports "not connected", whatever  *)
(* the command, the authenticate command included.                         *)
C33_DisconnectedSendRejected ==
    [][(out'.op = "sendCommand" /\ (~st.isConnected \/ st.device = "null"))
       => (wire' = wire /\ out'.report = "not connected")]_vars

(* C34: lastCaptureTime is set only by the setLastCaptureTime call a       *)
(* firing of the automatic trigger queued, to the time of that firing; a   *)
(* run started by the Capture button leaves it, and the value the frame    *)
(* processor compares with, as they are.                                   *)
C34_CooldownFromAutomaticFiringsOnly ==
    /\ [][st'.lastCaptureTime # st.lastCaptureTime
            => /\ jsQueue # <<>> /\ jsQueue' = Tail(jsQueue)
               /\ Head(jsQueue).fn = "setLastCaptureTime"
               /\ st'.lastCaptureTime = Head(jsQueue).t]_vars
    /\ [][(out'.op = "captureAndVerify" /\ out'.report = "started" /\ jsQueue' = jsQueue)
            => /\ st'.lastCaptureTime = st.lastCaptureTime
               /\ worklet' = worklet]_vars
(* The trigger fired in the same TickMs as a manual run began: the run of  *)
(* slot 1 has ended, no firing had set lastCaptureTime before it, and the  *)
(* clock has not advanced since the screen was ready.                      *)
C34_FiredRightAfterManualRun ==
    /\ out.op = "frameProcessor" /\ out.report = "fire"
    /\ runs[1].pc = "done" /\ ~st.isScanning
    /\ st.lastCaptureTime = 0 /\ worklet.lastCaptureTime = 0
    /\ Len(jsQueue) = 2
    /\ now = StartMs

(* C35: the location reporter has at most one call of sendLocationUpdate   *)
(* in flight (awaiting its position or its POST): while one is in flight   *)
(* a further call returns at the guard and starts nothing.                 *)
C35_OneLocationUpdateInFlight ==
    /\ [](Cardinality(CallsInFlight) <= 1)
    /\ [][CallsInFlight # {} => Len(reporter'.calls) = Len(reporter.calls)]_vars

(* Two positions are at least 0.5 m apart (tenths of a millimetre, on      *)
(* squares).                                                               *)
HalfMetreApart(p, q) ==
    1112 * 1112 * ((q.latitude - p.latitude) * (q.latitude - p.latitude)
                   + (q.longitude - p.longitude) * (q.longitude - p.longitude))
        >= 5000 * 5000

(* C36: a poll that got its position starts a POST exactly when no         *)
(* location is recorded yet or the position is at least 0.5 m from the     *)
(* last recorded one, and the server receives only positions so posted; a  *)
(* suppressed poll leaves the last recorded location as it is, clears the  *)
(* processing flag and sends nothing.                                      *)
C36_DuplicateSuppressed ==
    /\ [][(/\ reporter'.report.op = "sendLocationUpdate"
           /\ reporter'.report.what \in {"suppressed", "posting"})
          => LET i == reporter'.report.call
                 p == reporter.position
                 last == reporter.lastLocation
                 send == last = <<>> \/ HalfMetreApart(last[1], p)
             IN /\ (reporter'.report.what = "posting") <=> send
                /\ send => /\ reporter'.calls[i] = [pc |-> "fetch", at |-> <<p>>]
                           /\ reporter'.lastLocation = <<p>>
                /\ ~send => /\ reporter'.lastLocation = last
                            /\ ~reporter'.processing
                            /\ reporter'.calls[i].pc = "done"
                /\ reporter'.server = reporter.server]_vars
    /\ [][reporter'.server # reporter.server
          => \E i \in 1..Len(reporter.calls) :
                /\ reporter.calls[i].pc = "fetch"
                /\ reporter'.server = Append(reporter.server, reporter.calls[i].at[1])]_vars
(* A poll 0.497 m from the recorded location was suppressed while the POST *)
(* of that location was still under way.                                   *)
C36_SuppressedJustInsideHalfMetre ==
    /\ reporter.report = ReporterReport("sendLocationUpdate", 2, "suppressed")
    /\ reporter.lastLocation = <<Position(0, 0)>>
    /\ reporter.position = Position(2, 4)
    /\ reporter.calls[1].pc = "fetch"
    /\ ~reporter.processing

(* C37: the last recorded location is set to a position when its POST is   *)
(* started, before the server has it; a POST that fails leaves the         *)
(* recorded location in place and is not repeated; and a poll within 0.5 m *)
(* of the recorded location sends nothing, whether or not the server ever  *)
(* received that location.                                                 *)
C37_FailedPostNotResent ==
    /\ [][reporter'.report.what = "posting"
            => /\ reporter'.lastLocation = <<reporter.position>>
               /\ reporter'.server = reporter.server]_vars
    /\ [][reporter'.report.what = "post failed"
            => /\ reporter.lastLocation # <<>>
               /\ reporter'.lastLocation = reporter.lastLocation
               /\ reporter'.server = reporter.server
               /\ Len(reporter'.calls) = Len(reporter.calls)
               /\ reporter'.calls[reporter'.report.call].pc = "done"]_vars
    /\ [][(/\ reporter'.report.what \in {"suppressed", "posting"}
           /\ reporter.lastLocation # <<>>
           /\ ~HalfMetreApart(reporter.lastLocation[1], reporter.position))
            => /\ reporter'.report.what = "suppressed"
               /\ reporter'.lastLocation = reporter.lastLocation
               /\ reporter'.server = reporter.server]_vars
(* The POST of the first position failed and a later poll at the same      *)
(* position was suppressed: the server has received nothing.               *)
C37_LostPositionSuppressed ==
    /\ reporter.report = ReporterReport("sendLocationUpdate", 2, "suppressed")
    /\ reporter.lastLocation = <<reporter.position>>
    /\ reporter.server = <<>>
    /\ CallsInFlight = {}
    /\ reporter.calls[1].at = reporter.lastLocation
    /\ reporter.calls[2].at = reporter.lastLocation

(* The records getUsers would return for userId u. *)
RecordsOf(rows, u) == SelectSeq(selectUsers(rows), LAMBDA user : user.userId = u)

InvalidUser(user) ==
    \/ user.userId = <<>> \/ \A k \in 1..Len(user.userId) : user.userId[k] = " "
    \/ user.embedding.numbers.len = 0
    \/ ~user.embedding.finite

(* C39: saveUser called with an invalid user, and saveMultipleUsers called *)
(* with a batch holding at least one, throw and leave the table as it was: *)
(* no user of the batch is saved.                                          *)
C39_InvalidSaveLeavesStore ==
    [][(/\ store'.last.op \in {"saveUser", "saveMultipleUsers"}
        /\ \E k \in 1..Len(store'.last.users) : InvalidUser(store'.last.users[k]))
       => /\ store'.last.outcome = "threw"
          /\ store'.rows = store.rows
          /\ store'.nextId = store.nextId]_vars
(* A batch of a valid user followed by one with a blank userId threw, and  *)
(* the table still holds the row it had.                                   *)
C39_BatchWithBlankIdThrew ==
    /\ store.last.op = "saveMultipleUsers" /\ store.last.outcome = "threw"
    /\ Len(store.last.users) = 2
    /\ ~InvalidUser(store.last.users[1])
    /\ store.last.users[2].userId = <<" ">>
    /\ Len(store.rows) = 1
    /\ store.rows[1].userId # store.last.users[1].userId

(* A registration check has called navigation.replace('Verify'). *)
CheckNavigated == splash.navigations >= 1 /\ splash.registerPc # "done"

(* C40: once a registration check of the splash screen has returned        *)
(* REGISTERED and called navigation.replace('Verify'), the polling         *)
(* interval is cleared, no further check is started, and no check that was *)
(* still pending calls navigation.replace again.                           *)
C40_NavigatesAtMostOnce ==
    /\ [](CheckNavigated => ~splash.interval)
    /\ [][CheckNavigated
            => /\ Len(splash'.checks) = Len(splash.checks)
               /\ ~(/\ splash'.report.op = "sendDeviceId"
                     /\ splash'.report.what = "navigated"
                     /\ splash'.navigations > splash.navigations)]_vars

====
